---- MODULE Spec2Model ----
(***************************************************************************)
(* A model of logista's formatter package: the stream pipeline             *)
(* (ProcessStream, shouldSkip, Format) and the template preprocessor       *)
(* (PreProcessTemplate, transformAtSymbol, transformSimpleSyntax).         *)
(*                                                                         *)
(* Text is modelled as a sequence of one-character strings (a few fixed    *)
(* multi-character tokens stand for text whose inner structure no code     *)
(* path looks at).                                                         *)
(***************************************************************************)
EXTENDS Integers, Sequences, FiniteSets, TLC

VARIABLES
    \* ---- ProcessStream ----
    handleNonJSON,  \* parameter handleNonJSON
    skipPatterns,   \* parameter skipPatterns
    noColors,       \* f.noColors
    lines,          \* the lines scanner.Scan() has returned so far
    inNonJSON,      \* local inNonJSON
    out,            \* the writes made to w, in order
    status,         \* "running", or how ProcessStream returned
    err,            \* the error ProcessStream returned
    \* ---- PreProcessTemplate ----
    template,       \* the format string handed to PreProcessTemplate
    options,        \* PreProcessTemplateOptions.EnableSimpleSyntax
    pre,            \* "edit", or "done" once PreProcessTemplate has run
    result,         \* PreProcessTemplate(template, options)
    again,          \* PreProcessTemplate(result, options)
    \* ---- ApplyColors and stripColorTags ----
    colorInput,     \* parameter input of both functions, as the pieces it is made of
    applyResult,    \* local result of ApplyColors
    stripResult,    \* local result of stripColorTags
    colorPc,        \* "idle", "edit", "apply" (ApplyColors' loop), "strip"
                    \* (stripColorTags' loop), "done"
    \* ---- template functions ----
    call,           \* the function called and its arguments
    ret,            \* what the call returned
    ret2,           \* what the same call returned when it was made again
    \* ---- runLogista ----
    tmplFormatter,  \* what NewTemplateFormatterWithOptions returned
    \* ---- Format called from several goroutines ----
    preferredDateFmt, \* f.preferredDateFmt
    records,        \* the mapping each goroutine hands to Format
    formatCalls,    \* each goroutine's call of Format: where it is, what it returned
    builders        \* the strings.Builder of each call

streamVars == <<handleNonJSON, skipPatterns, noColors, lines, inNonJSON, out, status, err>>
preVars == <<template, options, pre, result, again>>
colorVars == <<colorInput, applyResult, stripResult, colorPc>>
callVars == <<call, ret, ret2>>
goVars == <<preferredDateFmt, records, formatCalls, builders>>
runVars == <<tmplFormatter, preferredDateFmt, records, formatCalls, builders>>
libVars == <<colorInput, applyResult, stripResult, colorPc, call, ret, ret2,
             tmplFormatter, preferredDateFmt, records, formatCalls, builders>>
vars == <<handleNonJSON, skipPatterns, noColors, lines, inNonJSON, out, status, err,
          template, options, pre, result, again,
          colorInput, applyResult, stripResult, colorPc, call, ret, ret2,
          tmplFormatter, preferredDateFmt, records, formatCalls, builders>>

(***************************************************************************)
(* Bounds                                                                  *)
(***************************************************************************)
MaxLines == 4
MaxSimpleLen == 7
MaxAtLen == 6

(***************************************************************************)
(* Generic text helpers                                                    *)
(***************************************************************************)
\* strings.Contains(s, sub)
Contains(s, sub) ==
    \E i \in 1..(Len(s) - Len(sub) + 1) : SubSeq(s, i, i + Len(sub) - 1) = sub

\* strings.Join(elems, sep)
RECURSIVE Join(_, _)
Join(elems, sep) ==
    IF Len(elems) = 0 THEN <<>>
    ELSE IF Len(elems) = 1 THEN elems[1]
    ELSE elems[1] \o sep \o Join(Tail(elems), sep)

\* strings.Repeat(" ", n)
Spaces(n) == [k \in 1..n |-> " "]

\* the decimal digits of a natural number
RECURSIVE Digits(_)
Digits(n) ==
    IF n < 10 THEN <<ToString(n)>>
    ELSE Digits(n \div 10) \o <<ToString(n % 10)>>

\* digits without their trailing zeros (one digit is kept)
RECURSIVE TrimZeros(_)
TrimZeros(d) ==
    IF Len(d) > 1 /\ d[Len(d)] = "0" THEN TrimZeros(SubSeq(d, 1, Len(d) - 1)) ELSE d

\* %v of a float64 that holds the natural number n: the shortest digits,
\* in exponent form from 1e+06 on
FormatFloat(n) ==
    LET d == Digits(n)
        exp == Len(d) - 1
        m == TrimZeros(d)
    IN  IF exp < 6 THEN d
        ELSE <<m[1]>> \o (IF Len(m) > 1 THEN <<".">> \o Tail(m) ELSE <<>>)
             \o <<"e", "+">> \o (IF exp < 10 THEN <<"0">> ELSE <<>>) \o Digits(exp)

\* sort.Strings, and the key order fmt prints a map in: the keys of the
\* model in ascending order
KeyOrder == <<"a", "ab", "b", "bad", "code", "d", "id", "level", "msg">>
SortedKeys(keys) == SelectSeq(KeyOrder, LAMBDA key : key \in keys)

\* the bytes of a key
Chars(key) == IF key = "ab" THEN <<"a", "b">> ELSE <<key>>

\* the values a decoded record holds, and the int of a template literal
Nil == [k |-> "nil"]
StrVal(s) == [k |-> "string", v |-> s]
NumVal(n) == [k |-> "number", v |-> n]
BoolVal(b) == [k |-> "bool", v |-> b]
ArrVal(a) == [k |-> "array", v |-> a]
MapVal(m) == [k |-> "map", v |-> m]
IntVal(n) == [k |-> "int", v |-> n]

\* fmt.Sprintf("%v", value)
RECURSIVE Sprintf(_)
Sprintf(value) ==
    IF value.k = "nil" THEN <<"<", "n", "i", "l", ">">>
    ELSE IF value.k = "string" THEN value.v
    ELSE IF value.k = "number" THEN FormatFloat(value.v)
    ELSE IF value.k = "int" THEN Digits(value.v)
    ELSE IF value.k = "bool"
    THEN (IF value.v THEN <<"t", "r", "u", "e">> ELSE <<"f", "a", "l", "s", "e">>)
    ELSE IF value.k = "array"
    THEN <<"[">> \o Join([i \in 1..Len(value.v) |-> Sprintf(value.v[i])], <<" ">>) \o <<"]">>
    ELSE LET keys == SortedKeys(DOMAIN value.v)
         IN  <<"m", "a", "p", "[">>
             \o Join([i \in 1..Len(keys) |->
                         Chars(keys[i]) \o <<":">> \o Sprintf(value.v[keys[i]])], <<" ">>)
             \o <<"]">>

(***************************************************************************)
(* Input lines and json.Unmarshal                                          *)
(***************************************************************************)
\* {"level":"ab"}
LineAB == [text |-> <<"{", "\"level\"", ":", "\"", "a", "b", "\"", "}">>,
           json |-> "object",
           data |-> [f \in {"level"} |-> StrVal(<<"a", "b">>)]]
\* {"level":"b","code":12}
LineB == [text |-> <<"{", "\"level\"", ":", "\"", "b", "\"", ",", "\"code\"", ":", "1", "2", "}">>,
          json |-> "object",
          data |-> [f \in {"level", "code"} |->
                        IF f = "level" THEN StrVal(<<"b">>) ELSE NumVal(12)]]
\* {"msg":"a","bad":1}: a record on which executing the template fails
LineBad == [text |-> <<"{", "\"msg\"", ":", "\"", "a", "\"", ",", "\"bad\"", ":", "1", "}">>,
            json |-> "object",
            data |-> [f \in {"msg", "bad"} |->
                         IF f = "msg" THEN StrVal(<<"a">>) ELSE NumVal(1)]]
\* null
LineNull == [text |-> <<"null">>, json |-> "null", data |-> <<>>]
\* [1]
LineArray == [text |-> <<"[", "1", "]">>, json |-> "array", data |-> <<>>]
\* a stack-trace line or other plain text
LineText == [text |-> <<"o", "o", "p", "s">>, json |-> "invalid", data |-> <<>>]
\* the empty line
LineEmpty == [text |-> <<>>, json |-> "invalid", data |-> <<>>]

Lines == {LineAB, LineB, LineBad, LineNull, LineArray, LineText, LineEmpty}

\* decoding into an interface{} instead of a map: any JSON value is accepted
Unmarshal_AnyJSON(line) ==
    IF line.json = "object" THEN [ok |-> TRUE, data |-> line.data]
    ELSE IF line.json \in {"null", "array"} THEN [ok |-> TRUE, data |-> <<>>]
    ELSE [ok |-> FALSE, data |-> <<>>]

\* json.Unmarshal([]byte(line), &data) with data a map[string]interface{}:
\* an object fills the map, null leaves it nil without an error, anything
\* else is an error.
Unmarshal(line) ==
    IF line.json = "object" THEN [ok |-> TRUE, data |-> line.data]
    ELSE IF line.json = "null" THEN [ok |-> TRUE, data |-> <<>>]
    ELSE [ok |-> FALSE, data |-> <<>>]

(***************************************************************************)
(* shouldSkip                                                              *)
(***************************************************************************)
SkipPattern(field, value) == [Field |-> field, Value |-> value]

\* shouldSkip with the substring test left out
shouldSkip_ExactOnly(data, patterns) ==
    \E i \in 1..Len(patterns) :
        /\ patterns[i].Field \in DOMAIN data
        /\ Sprintf(data[patterns[i].Field]) = patterns[i].Value

shouldSkip(data, patterns) ==
    IF Len(patterns) = 0 THEN FALSE
    ELSE \E i \in 1..Len(patterns) :
            /\ patterns[i].Field \in DOMAIN data
            /\ LET actualValueStr == Sprintf(data[patterns[i].Field])
               IN  \/ actualValueStr = patterns[i].Value
                   \/ Contains(actualValueStr, patterns[i].Value)

\* the parsed --skip flags the model runs with
SkipPatternLists ==
    { <<>>,
      <<SkipPattern("level", <<"a">>)>>,
      <<SkipPattern("code", <<"1">>), SkipPattern("msg", <<>>)>> }

(***************************************************************************)
(* Format, for {{.level}} {{.msg}}{{if .bad}}{{pad .bad .msg}}{{end}}       *)
(***************************************************************************)
noValueStr == <<"<no value>">>

FieldText(data, f) ==
    IF f \in DOMAIN data THEN Sprintf(data[f]) ELSE noValueStr

\* template.Execute fails when a function is called with the wrong argument
\* shape: pad wants an int length and a decoded number is a float64
ExecuteFails(data) == "bad" \in DOMAIN data

Execute(data) == FieldText(data, "level") \o <<" ">> \o FieldText(data, "msg")

\* Format that returns what was rendered before the failure, and no error
Format_Partial(data) ==
    IF ExecuteFails(data) THEN [ok |-> TRUE, s |-> FieldText(data, "level")]
    ELSE [ok |-> TRUE, s |-> Execute(data)]

Format(data) ==
    IF ExecuteFails(data) THEN [ok |-> FALSE, s |-> <<>>]
    ELSE [ok |-> TRUE, s |-> Execute(data)]

(***************************************************************************)
(* ProcessStream                                                           *)
(***************************************************************************)
ESC == "\\033"
NL == "\n"

\* the fixed marker put in front of a non-JSON line
Prefix(nc) ==
    IF nc THEN <<">", ">", ">", " ">>
    ELSE <<ESC, "[", "3", "1", "m", ">", ">", ">", ESC, "[", "0", "m", " ">>

\* One io.WriteString(w, s): the bytes written and the input line (by its
\* number) in whose iteration the write was made.
Write(n, s) == [by |-> n, s |-> s]

\* the writes of an iteration put in front of the output instead of after it
DoWrites_InFront(ws, k, nonJSON) ==
    /\ out' = SubSeq(ws, 1, k) \o out
    /\ status' = IF k < Len(ws) THEN "failed" ELSE "running"
    /\ err' = IF k < Len(ws) THEN [kind |-> "write", text |-> <<>>] ELSE err
    /\ inNonJSON' = nonJSON

\* the writes of an iteration made past the one that fails
DoWrites_KeepGoing(ws, k, nonJSON) ==
    /\ out' = out \o SubSeq(ws, 1, k) \o SubSeq(ws, k + 2, Len(ws))
    /\ status' = IF k < Len(ws) THEN "failed" ELSE "running"
    /\ err' = IF k < Len(ws) THEN [kind |-> "write", text |-> <<>>] ELSE err
    /\ inNonJSON' = nonJSON

\* The writes of one loop iteration, of which the first k succeed; a write
\* that fails ends ProcessStream with the writer's error.
DoWrites(ws, k, nonJSON) ==
    /\ out' = out \o SubSeq(ws, 1, k)
    /\ IF k < Len(ws)
       THEN /\ status' = "failed"
            /\ err' = [kind |-> "write", text |-> <<>>]
            /\ inNonJSON' = nonJSON
       ELSE /\ status' = "running"
            /\ err' = err
            /\ inNonJSON' = nonJSON

CanScan == status = "running" /\ Len(lines) < MaxLines

\* line == "": continue
ScanEmpty ==
    /\ CanScan
    /\ lines' = Append(lines, LineEmpty)
    /\ UNCHANGED <<handleNonJSON, skipPatterns, noColors, inNonJSON, out, status, err>>
    /\ UNCHANGED preVars
    /\ UNCHANGED libVars

\* ScanNonJSON without the inNonJSON test: a blank line before every line
ScanNonJSON_AlwaysBlank(line) ==
    /\ CanScan
    /\ line.text # <<>>
    /\ ~Unmarshal(line).ok
    /\ handleNonJSON
    /\ lines' = Append(lines, line)
    /\ LET n == Len(lines) + 1
           ws == <<Write(n, <<NL>>), Write(n, Prefix(noColors) \o line.text \o <<NL>>)>>
       IN  \E k \in 0..Len(ws) : DoWrites(ws, k, TRUE)
    /\ UNCHANGED <<handleNonJSON, skipPatterns, noColors>>
    /\ UNCHANGED preVars
    /\ UNCHANGED libVars

\* json.Unmarshal fails and handleNonJSON is set
ScanNonJSON(line) ==
    /\ CanScan
    /\ line.text # <<>>
    /\ ~Unmarshal(line).ok
    /\ handleNonJSON
    /\ lines' = Append(lines, line)
    /\ LET n == Len(lines) + 1
           formatted == Prefix(noColors) \o line.text
           ws == (IF ~inNonJSON THEN <<Write(n, <<NL>>)>> ELSE <<>>)
                 \o <<Write(n, formatted \o <<NL>>)>>
       IN  \E k \in 0..Len(ws) : DoWrites(ws, k, TRUE)
    /\ UNCHANGED <<handleNonJSON, skipPatterns, noColors>>
    /\ UNCHANGED preVars
    /\ UNCHANGED libVars

\* json.Unmarshal fails and handleNonJSON is not set
ScanInvalid(line) ==
    /\ CanScan
    /\ line.text # <<>>
    /\ ~Unmarshal(line).ok
    /\ ~handleNonJSON
    /\ lines' = Append(lines, line)
    /\ status' = "failed"
    /\ err' = [kind |-> "invalid JSON", text |-> line.text]
    /\ UNCHANGED <<handleNonJSON, skipPatterns, noColors, inNonJSON, out>>
    /\ UNCHANGED preVars
    /\ UNCHANGED libVars

\* ScanSkipped with the block finalised before the skip patterns are looked at
ScanSkipped_EndsBlock(line) ==
    /\ CanScan
    /\ line.text # <<>>
    /\ Unmarshal(line).ok
    /\ shouldSkip(Unmarshal(line).data, skipPatterns)
    /\ lines' = Append(lines, line)
    /\ LET n == Len(lines) + 1
           sep == IF inNonJSON THEN <<Write(n, <<NL>>)>> ELSE <<>>
       IN  \E k \in 0..Len(sep) : DoWrites(sep, k, FALSE)
    /\ UNCHANGED <<handleNonJSON, skipPatterns, noColors>>
    /\ UNCHANGED preVars
    /\ UNCHANGED libVars

\* the record matches a skip pattern: continue
ScanSkipped(line) ==
    /\ CanScan
    /\ line.text # <<>>
    /\ Unmarshal(line).ok
    /\ shouldSkip(Unmarshal(line).data, skipPatterns)
    /\ lines' = Append(lines, line)
    /\ UNCHANGED <<handleNonJSON, skipPatterns, noColors, inNonJSON, out, status, err>>
    /\ UNCHANGED preVars
    /\ UNCHANGED libVars

\* ScanRecord that writes the separator but stays in the non-JSON block
ScanRecord_KeepsMode(line) ==
    /\ CanScan
    /\ line.text # <<>>
    /\ Unmarshal(line).ok
    /\ ~shouldSkip(Unmarshal(line).data, skipPatterns)
    /\ Format(Unmarshal(line).data).ok
    /\ lines' = Append(lines, line)
    /\ LET n == Len(lines) + 1
           f == Format(Unmarshal(line).data)
           sep == IF inNonJSON THEN <<Write(n, <<NL>>)>> ELSE <<>>
       IN  \E k \in 0..(Len(sep) + 1) :
               DoWrites(sep \o <<Write(n, f.s \o <<NL>>)>>, k, inNonJSON)
    /\ UNCHANGED <<handleNonJSON, skipPatterns, noColors>>
    /\ UNCHANGED preVars
    /\ UNCHANGED libVars

\* the record is formatted and written
ScanRecord(line) ==
    /\ CanScan
    /\ line.text # <<>>
    /\ Unmarshal(line).ok
    /\ ~shouldSkip(Unmarshal(line).data, skipPatterns)
    /\ lines' = Append(lines, line)
    /\ LET n == Len(lines) + 1
           f == Format(Unmarshal(line).data)
           sep == IF inNonJSON THEN <<Write(n, <<NL>>)>> ELSE <<>>
       IN  IF f.ok
           THEN \E k \in 0..(Len(sep) + 1) :
                    DoWrites(sep \o <<Write(n, f.s \o <<NL>>)>>, k, FALSE)
           ELSE \/ /\ Len(sep) = 1
                   /\ DoWrites(sep, 0, FALSE)
                \/ /\ out' = out \o sep
                   /\ inNonJSON' = FALSE
                   /\ status' = "failed"
                   /\ err' = [kind |-> "render", text |-> <<>>]
    /\ UNCHANGED <<handleNonJSON, skipPatterns, noColors>>
    /\ UNCHANGED preVars
    /\ UNCHANGED libVars

\* scanner.Scan() returns false and scanner.Err() is nil
EndOfInput ==
    /\ status = "running"
    /\ status' = "done"
    /\ UNCHANGED <<handleNonJSON, skipPatterns, noColors, lines, inNonJSON, out, err>>
    /\ UNCHANGED preVars
    /\ UNCHANGED libVars

\* scanner.Scan() returns false and scanner.Err() is not nil
ScanError ==
    /\ status = "running"
    /\ status' = "failed"
    /\ err' = [kind |-> "read", text |-> <<>>]
    /\ UNCHANGED <<handleNonJSON, skipPatterns, noColors, lines, inNonJSON, out>>
    /\ UNCHANGED preVars
    /\ UNCHANGED libVars

(***************************************************************************)
(* Vocabulary of the stream claims                                         *)
(***************************************************************************)
Last(s) == s[Len(s)]

\* sub occurs in s as a contiguous block (stated position by position)
IsInfix(sub, s) ==
    \E i \in 0..(Len(s) - Len(sub)) : \A j \in 1..Len(sub) : s[i + j] = sub[j]

\* the writes made in the iteration of input line n, in order
WritesBy(n) == SelectSeq(out, LAMBDA w : w.by = n)

Blank(n) == Write(n, <<NL>>)
Marked(n) == Write(n, Prefix(noColors) \o lines[n].text \o <<NL>>)
Rendered(n) == Write(n, Execute(lines[n].data) \o <<NL>>)

IsEmptyLine(l) == l.text = <<>>
IsObject(l) == l.json = "object"
\* decoding the (non-empty) line reports an error
DecodeFails(l) == ~IsEmptyLine(l) /\ l.json \notin {"object", "null"}

\* the record has a field named by a pattern whose string form equals or
\* contains the pattern's value
MatchesPattern(l) ==
    \E i \in 1..Len(skipPatterns) :
        /\ skipPatterns[i].Field \in DOMAIN l.data
        /\ IsInfix(skipPatterns[i].Value, Sprintf(l.data[skipPatterns[i].Field]))

\* a line has been scanned in this step
Scanned == Len(lines') = Len(lines) + 1
NewLine == Len(lines) + 1

\* the lines whose iteration ran to its end
Completed == IF status = "failed" THEN 1..(Len(lines) - 1) ELSE 1..Len(lines)

(***************************************************************************)
(* C1. ProcessStream preserves input order: the output is, in input-line   *)
(* order, what each line contributed (a rendered record and a newline, or  *)
(* a marker-prefixed raw line and a newline, after the separator written   *)
(* in that line's iteration, if any); no line's output precedes that of an *)
(* earlier line; JSON-only input with no skip patterns gives exactly       *)
(* render(r1)+"\n"+...+render(rn)+"\n".                                    *)
(***************************************************************************)
C1_OrderPreserved ==
    /\ \A i \in 1..Len(out) : out[i].by \in 1..Len(lines)
    /\ \A i, j \in 1..Len(out) : i < j => out[i].by <= out[j].by
    /\ \A n \in Completed :
          \/ WritesBy(n) = <<>>
          \/ WritesBy(n) \in {<<Rendered(n)>>, <<Blank(n), Rendered(n)>>}
          \/ WritesBy(n) \in {<<Marked(n)>>, <<Blank(n), Marked(n)>>}
    /\ (/\ status # "failed"
        /\ skipPatterns = <<>>
        /\ \A n \in 1..Len(lines) : IsObject(lines[n]))
       => out = [n \in 1..Len(lines) |-> Rendered(n)]

C1_Witness ==
    /\ status = "done"
    /\ skipPatterns = <<>>
    /\ Len(lines) = 3
    /\ \A n \in 1..3 : IsObject(lines[n])
    /\ lines[1] # lines[2]
    /\ Len(out) = 3

(***************************************************************************)
(* C2. A decoded record with a top-level field named by some skip pattern, *)
(* whose string form equals or contains the pattern's value, is not        *)
(* rendered, adds nothing to the output and raises no error; a record that *)
(* matches no pattern is handed to the renderer (it is written, or the     *)
(* render or the write fails).                                             *)
(***************************************************************************)
C2_SkipNeverRendered ==
    [][(Scanned /\ IsObject(lines'[NewLine])) =>
         LET n == NewLine
         IN  IF MatchesPattern(lines'[n])
             THEN out' = out /\ status' = "running" /\ err' = err
             ELSE \/ /\ status' = "running"
                     /\ ~ExecuteFails(lines'[n].data)
                     /\ Len(out') > Len(out)
                     /\ Last(out') = Write(n, Execute(lines'[n].data) \o <<NL>>)
                  \/ /\ status' = "failed"
                     /\ err'.kind = "render"
                     /\ ExecuteFails(lines'[n].data)
                  \/ /\ status' = "failed"
                     /\ err'.kind = "write"]_vars

\* a record skipped on a substring match, a rendered record that matches
\* nothing, and a record skipped on a number's string form
C2_Witness ==
    /\ status = "done"
    /\ \/ /\ skipPatterns = <<SkipPattern("level", <<"a">>)>>
          /\ lines = <<LineAB, LineB, LineAB>>
       \/ /\ skipPatterns = <<SkipPattern("code", <<"1">>), SkipPattern("msg", <<>>)>>
          /\ lines = <<LineB, LineAB, LineBad>>
    /\ Len(out) = 1
    /\ out[1].by = 2

(***************************************************************************)
(* C3. With non-JSON handling enabled every maximal run of contiguous      *)
(* non-JSON lines is written as one blank line, the lines of the run each  *)
(* prefixed with the marker, and one blank line after the run.             *)
(* (Empty lines are not looked at and do not break a run.)                 *)
(***************************************************************************)
\* lines a..b are a maximal run of non-JSON lines
EmptyBetween(a, b) == \A n \in (a + 1)..(b - 1) : IsEmptyLine(lines[n])
MaximalRun(a, b) ==
    /\ a <= b
    /\ DecodeFails(lines[a]) /\ DecodeFails(lines[b])
    /\ \A n \in a..b : DecodeFails(lines[n]) \/ IsEmptyLine(lines[n])
    /\ \A n \in 1..(a - 1) : EmptyBetween(n, a) => ~DecodeFails(lines[n])
    /\ \A n \in (b + 1)..Len(lines) : EmptyBetween(b, n) => ~DecodeFails(lines[n])

RunLines(a, b) == SelectSeq([k \in 1..(b - a + 1) |-> a + k - 1],
                            LAMBDA n : ~IsEmptyLine(lines[n]))

C3_BlankAroundEveryRun ==
    (status = "done" /\ handleNonJSON) =>
        \A a, b \in 1..Len(lines) :
            MaximalRun(a, b) =>
                \E p \in 1..Len(out) :
                    LET run == RunLines(a, b)
                    IN  /\ out[p] = Blank(a)
                        /\ p + Len(run) + 1 <= Len(out)
                        /\ \A k \in 1..Len(run) : out[p + k] = Marked(run[k])
                        /\ out[p + Len(run) + 1].s = <<NL>>

\* C3 as amended: a blank line is written before the first line of a block
\* and every non-JSON line is written with the marker; the blank line after
\* the block is written only when a later record is rendered; empty lines
\* and skipped records write nothing and do not end the block, and nothing
\* is written at the end of the input.
Visible(l) == DecodeFails(l) \/ (~IsEmptyLine(l) /\ ~MatchesPattern(l))
PrevVisible(n) ==
    LET before == {m \in 1..(n - 1) : Visible(lines[m])}
    IN  IF before = {} THEN 0 ELSE CHOOSE m \in before : \A k \in before : k <= m
AfterBlock(n) == PrevVisible(n) # 0 /\ DecodeFails(lines[PrevVisible(n)])

C3_BlankAtBlockEdges ==
    handleNonJSON =>
        /\ \A i \in 1..Len(out) : out[i].by \in 1..Len(lines)
        /\ \A n \in Completed :
              WritesBy(n) =
                 IF DecodeFails(lines[n])
                 THEN (IF AfterBlock(n) THEN <<>> ELSE <<Blank(n)>>) \o <<Marked(n)>>
                 ELSE IF Visible(lines[n])
                 THEN (IF AfterBlock(n) THEN <<Blank(n)>> ELSE <<>>) \o <<Rendered(n)>>
                 ELSE <<>>

C3_Witness ==
    /\ status = "done"
    /\ handleNonJSON
    /\ Len(lines) = 4
    /\ DecodeFails(lines[1]) /\ DecodeFails(lines[2])
    /\ IsObject(lines[3])
    /\ DecodeFails(lines[4])
    /\ Len(out) = 7

ColorIdle ==
    /\ colorInput = <<>>
    /\ applyResult = <<>>
    /\ stripResult = <<>>
    /\ colorPc = "idle"

\* no template function has been called
NotCalled == [fn |-> "none"]
NoResult == [ok |-> FALSE]
Returned(s) == [ok |-> TRUE, s |-> s]

CallIdle ==
    /\ call = NotCalled
    /\ ret = NoResult
    /\ ret2 = NoResult

\* NewTemplateFormatterWithOptions has not been called
NotConstructed == [state |-> "none", template |-> <<>>, err |-> "none"]
\* the preferredDateFmt a new formatter has, and no goroutine that calls
\* Format
DefaultDateFormat == <<"2006-01-02 15:04:05">>
NoGoroutines ==
    /\ preferredDateFmt = DefaultDateFormat
    /\ records = <<>>
    /\ formatCalls = <<>>
    /\ builders = <<>>
RunIdle == tmplFormatter = NotConstructed /\ NoGoroutines

LibIdle == ColorIdle /\ CallIdle /\ RunIdle

PreIdle ==
    /\ template = <<>>
    /\ options = TRUE
    /\ pre = "edit"
    /\ result = <<>>
    /\ again = <<>>

Init ==
    /\ handleNonJSON \in BOOLEAN
    /\ skipPatterns \in SkipPatternLists
    /\ noColors \in BOOLEAN
    /\ lines = <<>>
    /\ inNonJSON = FALSE
    /\ out = <<>>
    /\ status = "running"
    /\ err = [kind |-> "none", text |-> <<>>]
    /\ PreIdle
    /\ LibIdle

Next ==
    \/ ScanEmpty
    \/ \E line \in Lines : ScanNonJSON(line)
    \/ \E line \in Lines : ScanInvalid(line)
    \/ \E line \in Lines : ScanSkipped(line)
    \/ \E line \in Lines : ScanRecord(line)
    \/ EndOfInput
    \/ ScanError

Spec == Init /\ [][Next]_vars

(***************************************************************************)
(* Template preprocessor                                                   *)
(***************************************************************************)
\* \w of the regular expression: letters, digits and underscore
WordChars == {"a", "b", "0", "_"}
\* [a-zA-Z0-9._-]
NameChars == WordChars \cup {".", "-"}

\* the replacement text (index . "$1")
IndexExpr(name) ==
    <<"(", "i", "n", "d", "e", "x", " ", ".", " ", "\"">> \o name \o <<"\"", ")">>

\* the expression without its \B
AtMatches_NoBoundary(t, i) ==
    /\ t[i] = "@"
    /\ i < Len(t)
    /\ t[i + 1] \in NameChars

\* \B@ followed by at least one name character, at position i of t
AtMatches(t, i) ==
    /\ t[i] = "@"
    /\ i = 1 \/ t[i - 1] \notin WordChars
    /\ i < Len(t)
    /\ t[i + 1] \in NameChars

\* the greedy [a-zA-Z0-9._-]+ : the last position of the name that starts at i
RECURSIVE NameEnd(_, _)
NameEnd(t, i) ==
    IF i < Len(t) /\ t[i + 1] \in NameChars THEN NameEnd(t, i + 1) ELSE i

\* re.ReplaceAllString(template, `(index . "$1")`), from position i on
RECURSIVE ReplaceAllFrom(_, _)
ReplaceAllFrom(t, i) ==
    IF i > Len(t) THEN <<>>
    ELSE IF AtMatches(t, i)
    THEN LET e == NameEnd(t, i + 1)
         IN  IndexExpr(SubSeq(t, i + 1, e)) \o ReplaceAllFrom(t, e + 1)
    ELSE <<t[i]>> \o ReplaceAllFrom(t, i + 1)

transformAtSymbol(t) == ReplaceAllFrom(t, 1)

\* strings.Contains(t, "{{")
HasDoubleBrace(t) == \E i \in 1..(Len(t) - 1) : t[i] = "{" /\ t[i + 1] = "{"

\* strings.ReplaceAll(t, "{{", ""), from position i on
RECURSIVE RemoveDoubleBraces(_, _)
RemoveDoubleBraces(t, i) ==
    IF i > Len(t) THEN <<>>
    ELSE IF i < Len(t) /\ t[i] = "{" /\ t[i + 1] = "{"
    THEN RemoveDoubleBraces(t, i + 2)
    ELSE <<t[i]>> \o RemoveDoubleBraces(t, i + 1)

\* the early return left out
AlreadyGoTemplate_Never(t) == FALSE

\* "already valid Go template syntax (has {{ but no {)"
AlreadyGoTemplate(t) ==
    /\ HasDoubleBrace(t)
    /\ \A i \in 1..Len(RemoveDoubleBraces(t, 1)) : RemoveDoubleBraces(t, 1)[i] # "{"

\* the inner loop without its counter: the position of the first "}"
FindClosing_FirstBrace(t, i, openBraces) ==
    LET at == {k \in i..Len(t) : t[k] = "}"}
    IN  IF at = {} THEN Len(t) + 1 ELSE CHOOSE k \in at : \A j \in at : k <= j

\* the inner loop: the position of the brace that brings openBraces to 0,
\* or Len(t) + 1 when the text ends first
RECURSIVE FindClosing(_, _, _)
FindClosing(t, i, openBraces) ==
    IF i > Len(t) THEN i
    ELSE IF t[i] = "{" THEN FindClosing(t, i + 1, openBraces + 1)
    ELSE IF t[i] = "}"
    THEN (IF openBraces - 1 = 0 THEN i ELSE FindClosing(t, i + 1, openBraces - 1))
    ELSE FindClosing(t, i + 1, openBraces)

\* the slice taken from start instead of start+1
Reference_FromStart(t, start, i) ==
    <<"{", "{", ".">> \o SubSeq(t, start, i - 1) \o <<"}", "}">>

\* "{{." + template[start+1 : i] + "}}" for the braces at start and i
Reference(t, start, i) ==
    <<"{", "{", ".">> \o SubSeq(t, start + 1, i - 1) \o <<"}", "}">>

\* the outer loop, from position i on
RECURSIVE SimpleFrom(_, _)
SimpleFrom(t, i) ==
    IF i > Len(t) THEN <<>>
    ELSE IF t[i] = "{" /\ (i + 1 > Len(t) \/ t[i + 1] # "{")
    THEN LET close == FindClosing(t, i + 1, 1)
         IN  IF close <= Len(t)
             THEN Reference(t, i, close) \o SimpleFrom(t, close + 1)
             ELSE SubSeq(t, i, Len(t))
    ELSE <<t[i]>> \o SimpleFrom(t, i + 1)

transformSimpleSyntax(opts, t) ==
    IF ~opts THEN t
    ELSE IF AlreadyGoTemplate(t) THEN t
    ELSE SimpleFrom(t, 1)

PreProcessTemplate(t, opts) ==
    IF t = <<>> THEN t
    ELSE transformSimpleSyntax(opts, transformAtSymbol(t))

\* the characters a format string is made of in the two preprocessor runs
SimpleAlphabet == {"{", "}", "a", "\""}
AtAlphabet == {"@", "a", ".", "{", "}"}

\* the --format flag, one character at a time
Type(c, max) ==
    /\ pre = "edit"
    /\ Len(template) < max
    /\ template' = Append(template, c)
    /\ UNCHANGED <<options, pre, result, again>>
    /\ UNCHANGED streamVars
    /\ UNCHANGED libVars

\* NewTemplateFormatterWithOptions: format = PreProcessTemplate(format, preprocessOptions)
PreProcess ==
    /\ pre = "edit"
    /\ result' = PreProcessTemplate(template, options)
    /\ pre' = "done"
    /\ UNCHANGED <<template, options, again>>
    /\ UNCHANGED streamVars
    /\ UNCHANGED libVars

\* the preprocessed format handed to PreProcessTemplate once more
PreProcessAgain ==
    /\ pre = "done"
    /\ again' = PreProcessTemplate(result, options)
    /\ pre' = "twice"
    /\ UNCHANGED <<template, options, result>>
    /\ UNCHANGED streamVars
    /\ UNCHANGED libVars

\* ProcessStream has not been called
NoStream ==
    /\ handleNonJSON = FALSE
    /\ skipPatterns = <<>>
    /\ lines = <<>>
    /\ inNonJSON = FALSE
    /\ out = <<>>
    /\ status = "running"
    /\ err = [kind |-> "none", text |-> <<>>]

StreamIdle == NoStream /\ noColors = FALSE

InitPre ==
    /\ template = <<>>
    /\ pre = "edit"
    /\ result = <<>>
    /\ again = <<>>
    /\ StreamIdle
    /\ LibIdle

InitSimple == InitPre /\ options = TRUE
InitAt == InitPre /\ options \in BOOLEAN

NextSimple ==
    \/ \E c \in SimpleAlphabet : Type(c, MaxSimpleLen)
    \/ PreProcess
    \/ PreProcessAgain

NextAt ==
    \/ \E c \in AtAlphabet : Type(c, MaxAtLen)
    \/ PreProcess
    \/ PreProcessAgain

SpecSimple == InitSimple /\ [][NextSimple]_vars
SpecAt == InitAt /\ [][NextAt]_vars

(***************************************************************************)
(* Vocabulary of the preprocessor claims                                   *)
(***************************************************************************)
Ran == pre \in {"done", "twice"}

\* the pieces, one per character of t, put together
RECURSIVE Pieces(_, _, _)
Pieces(Piece(_, _), t, i) ==
    IF i > Len(t) THEN <<>> ELSE Piece(t, i) \o Pieces(Piece, t, i + 1)

Braces == {"{", "}"}
NoBraceIn(t, a, b) == \A k \in a..b : t[k] \notin Braces

\* position i of t opens a native action {{...}}, not empty, that ends at e
ActionAt(t, i, e) ==
    /\ i + 4 <= e /\ e <= Len(t)
    /\ t[i] = "{" /\ t[i + 1] = "{" /\ t[e - 1] = "}" /\ t[e] = "}"
    /\ NoBraceIn(t, i + 2, e - 2)
\* position i of t opens a single-brace reference {...} that ends at e
ReferenceAt(t, i, e) ==
    /\ i + 1 <= e /\ e <= Len(t)
    /\ t[i] = "{" /\ t[e] = "}"
    /\ NoBraceIn(t, i + 1, e - 1)

\* the segment that starts at position i: its kind and its last position
SegmentAt(t, i) ==
    IF t[i] \notin Braces THEN [kind |-> "text", end |-> i]
    ELSE IF \E e \in i..Len(t) : ActionAt(t, i, e)
    THEN [kind |-> "action", end |-> CHOOSE e \in i..Len(t) : ActionAt(t, i, e)]
    ELSE IF \E e \in i..Len(t) : ReferenceAt(t, i, e)
    THEN [kind |-> "reference", end |-> CHOOSE e \in i..Len(t) : ReferenceAt(t, i, e)]
    ELSE [kind |-> "stray", end |-> i]

\* the kinds of the segments of t from position i on
RECURSIVE SegmentKinds(_, _)
SegmentKinds(t, i) ==
    IF i > Len(t) THEN {}
    ELSE {SegmentAt(t, i).kind} \cup SegmentKinds(t, SegmentAt(t, i).end + 1)

\* t is plain text, native actions and single-brace references, with at
\* least one action and one reference
IsMixed(t) ==
    /\ "stray" \notin SegmentKinds(t, 1)
    /\ {"action", "reference"} \subseteq SegmentKinds(t, 1)

\* native actions kept, references rewritten to {{.field}}
RECURSIVE RewriteReferences(_, _)
RewriteReferences(t, i) ==
    IF i > Len(t) THEN <<>>
    ELSE LET seg == SegmentAt(t, i)
         IN  (IF seg.kind = "reference"
              THEN <<"{", "{", ".">> \o SubSeq(t, i + 1, seg.end - 1) \o <<"}", "}">>
              ELSE SubSeq(t, i, seg.end))
             \o RewriteReferences(t, seg.end + 1)

(***************************************************************************)
(* C5. With simple syntax enabled, a template that holds both native       *)
(* {{...}} actions and single-brace {field} references comes out with      *)
(* every native action unchanged and only the references rewritten to      *)
(* {{.field}}.                                                             *)
(***************************************************************************)
C5_NativeActionsUntouched ==
    (Ran /\ options /\ IsMixed(template)) =>
        result = RewriteReferences(template, 1)

(***************************************************************************)
(* C6. With simple syntax enabled, {@name} is preprocessed into            *)
(* {{(index . "name")}}: no "." is put in front of the fetch expression.   *)
(***************************************************************************)
IsAtReference(t) ==
    /\ Len(t) >= 4
    /\ t[1] = "{" /\ t[2] = "@" /\ t[Len(t)] = "}"
    /\ t[3] \in WordChars
    /\ \A k \in 3..(Len(t) - 1) : t[k] \in NameChars

C6_AtReferenceHasNoDot ==
    (Ran /\ options /\ IsAtReference(template)) =>
        result = <<"{", "{">> \o IndexExpr(SubSeq(template, 3, Len(template) - 1))
                     \o <<"}", "}">>

(***************************************************************************)
(* C7. With simple syntax enabled, in a template with no "{{", no "@" and  *)
(* only balanced, non-nested single braces, every {text} becomes {{.text}} *)
(* and every character outside the braces stays as it is, where it is.     *)
(***************************************************************************)
\* the nesting depth after the first i characters of t
RECURSIVE Depth(_, _)
Depth(t, i) ==
    IF i = 0 THEN 0
    ELSE Depth(t, i - 1) + (IF t[i] = "{" THEN 1 ELSE IF t[i] = "}" THEN -1 ELSE 0)

BalancedNotNested(t) ==
    /\ \A i \in 1..Len(t) : Depth(t, i) \in {0, 1}
    /\ Depth(t, Len(t)) = 0
    /\ \A i \in 1..Len(t) : t[i] # "@"

OpenOrClose(t, i) ==
    IF t[i] = "{" THEN <<"{", "{", ".">>
    ELSE IF t[i] = "}" THEN <<"}", "}">>
    ELSE <<t[i]>>

C7_SimpleReferencesRewritten ==
    (Ran /\ options /\ BalancedNotNested(template)) =>
        result = Pieces(OpenOrClose, template, 1)

C7_Witness ==
    /\ Ran /\ options
    /\ BalancedNotNested(template)
    /\ template = <<"a", "{", "a", "\"", "}", "{", "}">>
    /\ result # template

(***************************************************************************)
(* C8. Under either setting of EnableSimpleSyntax every @name token whose  *)
(* "@" starts the string or follows a non-word character is replaced by    *)
(* (index . "name"); an "@" after a word character and every other         *)
(* character stay as they are.                                             *)
(***************************************************************************)
\* position i of t is the "@" of a token
TokenAt(t, i) ==
    /\ t[i] = "@"
    /\ i = 1 \/ t[i - 1] \notin WordChars
    /\ i < Len(t) /\ t[i + 1] \in NameChars
\* position i of t lies in the name of a token
InName(t, i) ==
    \E p \in 1..(i - 1) : TokenAt(t, p) /\ \A k \in (p + 1)..i : t[k] \in NameChars
EndsName(t, i) ==
    InName(t, i) /\ (i = Len(t) \/ t[i + 1] \notin NameChars)

AtPiece(t, i) ==
    (IF TokenAt(t, i)
     THEN <<"(", "i", "n", "d", "e", "x", " ", ".", " ", "\"">>
     ELSE <<t[i]>>)
    \o (IF EndsName(t, i) THEN <<"\"", ")">> ELSE <<>>)

TokensReplaced(t) == Pieces(AtPiece, t, 1)
HasNoBrace(t) == NoBraceIn(t, 1, Len(t))

C8_AtTokensReplaced ==
    Ran =>
        /\ ~options => result = TokensReplaced(template)
        /\ (options /\ HasNoBrace(template)) => result = TokensReplaced(template)
        /\ options => result = transformSimpleSyntax(TRUE, TokensReplaced(template))

\* a@a.@a: the first "@" follows a word character, the second does not
C8_Witness ==
    /\ Ran
    /\ template = <<"a", "@", "a", ".", "@", "a">>
    /\ result = <<"a", "@", "a", ".">> \o IndexExpr(<<"a">>)

(***************************************************************************)
(* C9. PreProcessTemplate is idempotent on native syntax: for a template   *)
(* that is valid native double-brace syntax (plain text outside actions,   *)
(* any action content, braces inside string literals of an action          *)
(* included) a second pass gives what the first pass gave.                 *)
(***************************************************************************)
\* t from position i on, read in mode "text" (outside actions), "action" or
\* "string" (inside a string literal of an action): plain text holds no
\* brace and no "@", "{{" opens an action, "}}" outside a string literal
\* closes it, and an action holds braces only inside its string literals.
RECURSIVE NativeFrom(_, _, _)
NativeFrom(t, i, mode) ==
    IF i > Len(t) THEN mode = "text"
    ELSE IF mode = "text"
    THEN IF t[i] = "{"
         THEN i < Len(t) /\ t[i + 1] = "{" /\ NativeFrom(t, i + 2, "action")
         ELSE t[i] \notin {"}", "@"} /\ NativeFrom(t, i + 1, "text")
    ELSE IF mode = "action"
    THEN IF t[i] = "\"" THEN NativeFrom(t, i + 1, "string")
         ELSE IF t[i] = "}"
         THEN i < Len(t) /\ t[i + 1] = "}" /\ NativeFrom(t, i + 2, "text")
         ELSE t[i] \notin {"{", "@"} /\ NativeFrom(t, i + 1, "action")
    ELSE IF t[i] = "\"" THEN NativeFrom(t, i + 1, "action")
         ELSE NativeFrom(t, i + 1, "string")

IsNative(t) == HasDoubleBrace(t) /\ NativeFrom(t, 1, "text")

C9_IdempotentOnNative ==
    (pre = "twice" /\ options /\ IsNative(template)) => again = result

(***************************************************************************)
(* C10. A template that contains "{{" and in which every "{" belongs to a  *)
(* "{{" pair is returned byte for byte as it was given.                    *)
(***************************************************************************)
\* from position i on every "{" of t is paired with the "{" after it
RECURSIVE AllPaired(_, _)
AllPaired(t, i) ==
    IF i > Len(t) THEN TRUE
    ELSE IF t[i] = "{" THEN i < Len(t) /\ t[i + 1] = "{" /\ AllPaired(t, i + 2)
    ELSE AllPaired(t, i + 1)

OnlyDoubleBraces(t) == HasDoubleBrace(t) /\ AllPaired(t, 1)

C10_NativeReturnedUnchanged ==
    (Ran /\ OnlyDoubleBraces(template)) => result = template

\* C10 as amended: such a template is returned with nothing but its @name
\* tokens rewritten, so byte for byte as given when it holds no such token
C10_NativeOnlyAtRewritten ==
    (Ran /\ OnlyDoubleBraces(template)) =>
        /\ result = TokensReplaced(template)
        /\ (\A i \in 1..Len(template) : ~TokenAt(template, i)) => result = template

C10_Witness ==
    /\ Ran /\ options
    /\ OnlyDoubleBraces(template)
    /\ template = <<"{", "{", "@", "a", "}", "}">>
    /\ result = <<"{", "{">> \o IndexExpr(<<"a">>) \o <<"}", "}">>

(***************************************************************************)
(* Color tags: ApplyColors, applyColorCode, stripColorTags                 *)
(*                                                                         *)
(* A style name is one token ("red", "BOLD"); the expressions only tell    *)
(* "<" and ">" from everything else.                                       *)
(***************************************************************************)
MaxColorChunks == 5

\* the entries of colorCodes the model uses
colorCodes ==
    [style \in {<<"red">>, <<"white">>, <<"bold">>} |->
        IF style = <<"red">> THEN <<"3", "1">>
        ELSE IF style = <<"white">> THEN <<"3", "7">>
        ELSE <<"1">>]

ansiReset == <<ESC, "[", "0", "m">>

\* strings.ToLower
ToLower(s) == [k \in 1..Len(s) |-> IF s[k] = "BOLD" THEN "bold" ELSE s[k]]

\* strings.Fields(s): the words of s from position i on, word being the
\* word read so far
RECURSIVE FieldsFrom(_, _, _)
FieldsFrom(s, i, word) ==
    IF i > Len(s) THEN (IF word = <<>> THEN <<>> ELSE <<word>>)
    ELSE IF s[i] = " "
    THEN (IF word = <<>> THEN <<>> ELSE <<word>>) \o FieldsFrom(s, i + 1, <<>>)
    ELSE FieldsFrom(s, i + 1, Append(word, s[i]))

Fields(s) == FieldsFrom(s, 1, <<>>)

\* applyColorCode that leaves the tag around the content it has reset
applyColorCode_KeepTag(tagName, content) ==
    <<"<">> \o tagName \o <<">">> \o content \o ansiReset \o <<"<", "/", ">">>

applyColorCode(tagName, content) ==
    LET styles == Fields(tagName)
        known == SelectSeq(styles, LAMBDA style : ToLower(style) \in DOMAIN colorCodes)
        codes == [k \in 1..Len(known) |-> colorCodes[ToLower(known[k])]]
    IN  IF Len(codes) = 0 THEN content
        ELSE <<ESC, "[">> \o Join(codes, <<";">>) \o <<"m">> \o content \o ansiReset

\* the first position of c in s at or after from, 0 when there is none
IndexFrom(s, c, from) ==
    LET at == {k \in from..Len(s) : s[k] = c}
    IN  IF at = {} THEN 0 ELSE CHOOSE k \in at : \A j \in at : k <= j

\* <([^>]+)>([^<]*)(</[^>]*>|</>) tried at position i of s: the name runs
\* to the first ">", the content to the next "<", which must open a closing
\* tag that runs to the next ">"
TagMatchAt(s, i) ==
    LET nameEnd == IndexFrom(s, ">", i + 1)
        close == IF nameEnd = 0 THEN 0 ELSE IndexFrom(s, "<", nameEnd + 1)
        end == IF close = 0 THEN 0 ELSE IndexFrom(s, ">", close + 1)
    IN  [ok |-> /\ s[i] = "<"
                /\ nameEnd > i + 1
                /\ close # 0 /\ close < Len(s) /\ s[close + 1] = "/"
                /\ end # 0,
         start |-> i,
         tagName |-> SubSeq(s, i + 1, nameEnd - 1),
         content |-> SubSeq(s, nameEnd + 1, close - 1),
         end |-> end]

\* re.FindStringSubmatchIndex(result): the leftmost match
HasMatch(s) == \E i \in 1..Len(s) : TagMatchAt(s, i).ok
FindStringSubmatchIndex(s) ==
    TagMatchAt(s, CHOOSE i \in 1..Len(s) :
                      /\ TagMatchAt(s, i).ok
                      /\ \A j \in 1..(i - 1) : ~TagMatchAt(s, j).ok)

\* re.ReplaceAllString(result, "$1"), from position i on
RECURSIVE ReplaceAllTags(_, _)
ReplaceAllTags(s, i) ==
    IF i > Len(s) THEN <<>>
    ELSE IF TagMatchAt(s, i).ok
    THEN TagMatchAt(s, i).content \o ReplaceAllTags(s, TagMatchAt(s, i).end + 1)
    ELSE <<s[i]>> \o ReplaceAllTags(s, i + 1)

RECURSIVE stripColorTags(_)
stripColorTags(input) ==
    LET replaced == ReplaceAllTags(input, 1)
    IN  IF replaced = input THEN replaced ELSE stripColorTags(replaced)

\* the pieces an input string is put together from
ColorChunks ==
    { <<"<", "red", ">">>,
      <<"<", "red", " ", "BOLD", " ", "u", ">">>,
      <<"<", "/", ">">>,
      <<"<", "/", "red", ">">>,
      <<"x">>,
      <<"<">> }

\* s[1] \o s[2] \o ...
RECURSIVE Flatten(_)
Flatten(s) == IF Len(s) = 0 THEN <<>> ELSE s[1] \o Flatten(Tail(s))

\* the input string is put together, one piece at a time
TypeColor(chunk) ==
    /\ colorPc = "edit"
    /\ Len(colorInput) < MaxColorChunks
    /\ colorInput' = Append(colorInput, chunk)
    /\ UNCHANGED <<applyResult, stripResult, colorPc>>
    /\ UNCHANGED streamVars
    /\ UNCHANGED preVars
    /\ UNCHANGED callVars
    /\ UNCHANGED runVars

\* ApplyColors(input, noColors) is called, and stripColorTags(input) after it
ApplyColorsEnter ==
    /\ colorPc = "edit"
    /\ IF noColors
       THEN /\ applyResult' = stripColorTags(Flatten(colorInput))
            /\ colorPc' = "strip"
       ELSE /\ applyResult' = Flatten(colorInput)
            /\ colorPc' = "apply"
    /\ stripResult' = Flatten(colorInput)
    /\ UNCHANGED colorInput
    /\ UNCHANGED streamVars
    /\ UNCHANGED preVars
    /\ UNCHANGED callVars
    /\ UNCHANGED runVars

\* one iteration of the loop of ApplyColors
ApplyColorsIterate ==
    /\ colorPc = "apply"
    /\ IF HasMatch(applyResult)
       THEN LET m == FindStringSubmatchIndex(applyResult)
                colored == applyColorCode(m.tagName, m.content)
            IN  /\ applyResult' = SubSeq(applyResult, 1, m.start - 1) \o colored
                                    \o SubSeq(applyResult, m.end + 1, Len(applyResult))
                /\ colorPc' = "apply"
       ELSE /\ applyResult' = applyResult
            /\ colorPc' = "strip"
    /\ UNCHANGED <<colorInput, stripResult>>
    /\ UNCHANGED streamVars
    /\ UNCHANGED preVars
    /\ UNCHANGED callVars
    /\ UNCHANGED runVars

\* one iteration of the loop of stripColorTags(input)
StripColorTagsIterate ==
    /\ colorPc = "strip"
    /\ stripResult' = ReplaceAllTags(stripResult, 1)
    /\ colorPc' = IF stripResult' = stripResult THEN "done" ELSE "strip"
    /\ UNCHANGED <<colorInput, applyResult>>
    /\ UNCHANGED streamVars
    /\ UNCHANGED preVars
    /\ UNCHANGED callVars
    /\ UNCHANGED runVars

InitColor ==
    /\ NoStream
    /\ noColors \in BOOLEAN
    /\ PreIdle
    /\ colorInput = <<>>
    /\ applyResult = <<>>
    /\ stripResult = <<>>
    /\ colorPc = "edit"
    /\ CallIdle
    /\ RunIdle

NextColor ==
    \/ \E chunk \in ColorChunks : TypeColor(chunk)
    \/ ApplyColorsEnter
    \/ ApplyColorsIterate
    \/ StripColorTagsIterate

SpecColor == InitColor /\ [][NextColor]_vars

(***************************************************************************)
(* Vocabulary of the color claims                                          *)
(***************************************************************************)
ColorsDone == colorPc = "done"

\* s from position i on without its escape sequences ESC [ ... m
RECURSIVE RemoveEscapes(_, _)
RemoveEscapes(s, i) ==
    IF i > Len(s) THEN <<>>
    ELSE IF s[i] = ESC /\ IndexFrom(s, "m", i) # 0
    THEN RemoveEscapes(s, IndexFrom(s, "m", i) + 1)
    ELSE <<s[i]>> \o RemoveEscapes(s, i + 1)

\* the number of "<" in s
CountTags(s) == Cardinality({k \in 1..Len(s) : s[k] = "<"})

(***************************************************************************)
(* C11. For every input s, ApplyColors(s, false) without the escape        *)
(* sequences it emitted is exactly stripColorTags(s), and                  *)
(* ApplyColors(s, true) is stripColorTags(s): resolving colors neither     *)
(* loses, adds nor reorders text compared with stripping.                  *)
(***************************************************************************)
C11_ColorsKeepText ==
    ColorsDone =>
        IF noColors THEN applyResult = stripResult
        ELSE RemoveEscapes(applyResult, 1) = stripResult

(***************************************************************************)
(* C12. ApplyColors and stripColorTags terminate on every input: an        *)
(* iteration that finds a match leaves strictly fewer "<" in the working   *)
(* string, and an iteration that finds none leaves the loop with the       *)
(* string as it was. (The number of "<" is a natural number, so neither    *)
(* loop can take more iterations than its input has "<".)                  *)
(***************************************************************************)
C12_LoopsTerminate ==
    [][/\ (colorPc = "apply" /\ HasMatch(applyResult)) =>
             CountTags(applyResult') < CountTags(applyResult)
       /\ (colorPc = "apply" /\ ~HasMatch(applyResult)) =>
             (colorPc' = "strip" /\ applyResult' = applyResult)
       /\ (colorPc = "strip" /\ HasMatch(stripResult)) =>
             CountTags(stripResult') < CountTags(stripResult)
       /\ (colorPc = "strip" /\ ~HasMatch(stripResult)) =>
             (colorPc' = "done" /\ stripResult' = stripResult)]_vars

\* <red><red BOLD u>x</></>: two iterations of either loop
C12_Witness ==
    /\ ColorsDone
    /\ ~noColors
    /\ Flatten(colorInput) = <<"<", "red", ">", "<", "red", " ", "BOLD", " ", "u", ">",
                               "x", "<", "/", ">", "<", "/", ">">>
    /\ applyResult = <<ESC, "[", "3", "1", "m", ESC, "[", "3", "1", ";", "1", "m", "x">>
                        \o ansiReset \o ansiReset
    /\ stripResult = <<"x">>

(***************************************************************************)
(* Template functions                                                      *)
(*                                                                         *)
(* A function of the model gives the set of strings a call can return:     *)
(* one string, except where the result follows the order in which a range  *)
(* over a map visits its keys.                                             *)
(***************************************************************************)
\* strconv.Atoi for text without a sign
IsDigit(c) == c \in {"0", "1", "2", "3", "4", "5", "6", "7", "8", "9"}
DigitValue(c) == CHOOSE n \in 0..9 : ToString(n) = c
RECURSIVE AtoiValue(_)
AtoiValue(s) ==
    IF Len(s) = 0 THEN 0
    ELSE 10 * AtoiValue(SubSeq(s, 1, Len(s) - 1)) + DigitValue(s[Len(s)])
Atoi(s) ==
    IF Len(s) > 0 /\ \A i \in 1..Len(s) : IsDigit(s[i])
    THEN [ok |-> TRUE, n |-> AtoiValue(s)]
    ELSE [ok |-> FALSE, n |-> 0]

padFunc(length, value) ==
    IF value.k = "nil" THEN Spaces(length)
    ELSE LET str == Sprintf(value)
         IN  IF Len(str) >= length THEN str ELSE str \o Spaces(length - Len(str))

\* the orders in which a range over a map with these keys can visit them
KeyOrders(keys) ==
    {p \in [1..Cardinality(keys) -> keys] :
        \A i, j \in 1..Cardinality(keys) : p[i] = p[j] => i = j}

\* one result for each of the values vs[x], x in the domain of vs
Choices(vs, nc, Outputs(_, _)) ==
    {c \in [DOMAIN vs -> UNION {Outputs(vs[x], nc) : x \in DOMAIN vs}] :
        \A x \in DOMAIN vs : c[x] \in Outputs(vs[x], nc)}

\* the separator between the items of an array and the entries of a map
PrettySeparator(nc) ==
    IF nc THEN <<",", " ">>
    ELSE <<ESC, "[", "2", "m", ",", " ", ESC, "[", "0", "m">>
\* the key part of an entry of a map
PrettyKey(key, nc) ==
    IF nc THEN Chars(key) \o <<"=">>
    ELSE <<ESC, "[", "2", "m">> \o Chars(key) \o <<"=", ESC, "[", "0", "m">>

RECURSIVE prettyFunc(_, _), prettyArray(_, _), prettyMap(_, _)
prettyFunc(value, nc) ==
    IF value.k = "nil" THEN {<<"<", "n", "i", "l", ">">>}
    ELSE IF value.k = "string"
    THEN {IF value.v = <<>> THEN <<"<", "e", "m", "p", "t", "y", ">">> ELSE value.v}
    ELSE IF value.k \in {"bool", "number", "int"} THEN {Sprintf(value)}
    ELSE IF value.k = "array" THEN prettyArray(value.v, nc)
    ELSE prettyMap(value.v, nc)

prettyArray(arr, nc) ==
    IF Len(arr) = 0 THEN {<<"[", "]">>}
    ELSE {<<"[">> \o Join([i \in 1..Len(arr) |-> c[i]], PrettySeparator(nc)) \o <<"]">> :
             c \in Choices(arr, nc, prettyFunc)}

\* for key, val := range m: the keys come in an order the runtime picks
prettyMap(m, nc) ==
    IF DOMAIN m = {} THEN {<<"{", "}">>}
    ELSE {<<"{">>
          \o Join([i \in 1..Len(p) |-> PrettyKey(p[i], nc) \o c[p[i]]], PrettySeparator(nc))
          \o <<"}">> :
             p \in KeyOrders(DOMAIN m), c \in Choices(m, nc, prettyFunc)}

\* the padding parameter of table
KeyPadding(padding) ==
    IF padding.k = "int" THEN padding.v
    ELSE IF padding.k = "string" /\ Atoi(padding.v).ok /\ Atoi(padding.v).n > 0
    THEN Atoi(padding.v).n
    ELSE IF padding.k = "number" THEN padding.v
    ELSE 19

\* the loop over the sorted keys, from the i-th key on
RECURSIVE TableRows(_, _, _, _, _)
TableRows(dataMap, keys, i, keyPadding, nc) ==
    IF i > Len(keys) THEN {<<>>}
    ELSE LET val == dataMap[keys[i]]
             isEmpty == val.k = "nil" \/ (val.k = "string" /\ val.v = <<>>)
             paddedKey == padFunc(keyPadding, StrVal(Chars(keys[i])))
             row == (IF i > 1 THEN <<NL>> ELSE <<>>)
                    \o (IF nc THEN <<" ", " ">> \o paddedKey
                        ELSE <<" ", " ", ESC, "[", "2", "m">> \o paddedKey
                             \o <<ESC, "[", "0", "m">>)
         IN  IF isEmpty THEN TableRows(dataMap, keys, i + 1, keyPadding, nc)
             ELSE {row \o v \o rest :
                      v \in prettyFunc(val, nc),
                      rest \in TableRows(dataMap, keys, i + 1, keyPadding, nc)}

tableFunc(padding, value, nc) ==
    IF value.k = "nil" THEN {<<>>}
    ELSE LET actualValue == IF value.k = "array" /\ Len(value.v) > 0
                            THEN value.v[Len(value.v)] ELSE value
         IN  IF actualValue.k # "map" THEN prettyFunc(actualValue, nc)
             ELSE IF DOMAIN actualValue.v = {} THEN {<<>>}
             ELSE TableRows(actualValue.v, SortedKeys(DOMAIN actualValue.v), 1,
                            KeyPadding(padding), nc)

\* tableWrapper: {{table .}} and {{table 3 .}}
tableWrapper(args, nc) ==
    IF Len(args) = 0 THEN {<<>>}
    ELSE IF Len(args) = 1 THEN tableFunc(Nil, args[1], nc)
    ELSE tableFunc(args[1], args[Len(args)], nc)

\* "\033[" code "m" content ansiReset
Colored(code, content) == <<ESC, "[">> \o code \o <<"m">> \o content \o ansiReset

ApplyColorToString(content, colorName) ==
    IF colorName \in DOMAIN colorCodes THEN Colored(colorCodes[colorName], content)
    ELSE content

ColorByLevelName(levelStr) ==
    IF ToLower(levelStr) = <<"error">> THEN <<"red">> ELSE <<"white">>

colorFunc(colorName, value, nc) ==
    IF nc \/ value.k = "nil" THEN Sprintf(value)
    ELSE ApplyColorToString(Sprintf(value), colorName)

colorByLevelFunc(level, value, nc) ==
    IF nc \/ value.k = "nil" THEN Sprintf(value)
    ELSE IF level.k = "nil" THEN Sprintf(value)
    ELSE LET colorName == ColorByLevelName(Sprintf(level))
         IN  IF colorName \in DOMAIN colorCodes
             THEN Colored(colorCodes[colorName], Sprintf(value))
             ELSE Sprintf(value)

\* boldFunc without the test of f.noColors
boldFunc_Always(value, nc) ==
    IF value.k = "nil" THEN Sprintf(value) ELSE Colored(<<"1">>, Sprintf(value))

boldFunc(value, nc) ==
    IF nc \/ value.k = "nil" THEN Sprintf(value) ELSE Colored(<<"1">>, Sprintf(value))
italicFunc(value, nc) ==
    IF nc \/ value.k = "nil" THEN Sprintf(value) ELSE Colored(<<"3">>, Sprintf(value))
underlineFunc(value, nc) ==
    IF nc \/ value.k = "nil" THEN Sprintf(value) ELSE Colored(<<"4">>, Sprintf(value))
dimFunc(value, nc) ==
    IF nc \/ value.k = "nil" THEN Sprintf(value) ELSE Colored(<<"2">>, Sprintf(value))

nanStr == <<"N", "a", "N">>

\* truncFunc that appends the ellipsis to the first maxLen characters
truncFunc_LongEllipsis(maxLen, value) ==
    IF value.k = "nil" THEN noValueStr
    ELSE LET text == Sprintf(value)
         IN  IF maxLen.k # "int" \/ Len(text) <= maxLen.v THEN text
             ELSE SubSeq(text, 1, maxLen.v) \o <<".", ".", ".">>

truncFunc(maxLen, value) ==
    IF value.k = "nil" THEN noValueStr
    ELSE LET text == Sprintf(value)
             given == IF maxLen.k = "nil" THEN 20
                      ELSE IF maxLen.k = "int" THEN maxLen.v
                      ELSE IF Atoi(Sprintf(maxLen)).ok THEN Atoi(Sprintf(maxLen)).n
                      ELSE 20
             maxLength == IF given <= 0 THEN 20 ELSE given
         IN  IF text = <<>> THEN <<>>
             ELSE IF Len(text) <= maxLength THEN text
             ELSE IF maxLength < 4 THEN SubSeq(text, 1, maxLength)
             ELSE SubSeq(text, 1, maxLength - 3) \o <<".", ".", ".">>

\* strings.HasSuffix(pattern, "*") and strings.HasPrefix(key, prefix)
HasSuffixStar(pattern) == Len(pattern) > 0 /\ pattern[Len(pattern)] = "*"
HasPrefix(str, prefix) ==
    Len(prefix) <= Len(str) /\ SubSeq(str, 1, Len(prefix)) = prefix

\* filterFunc that takes a pattern ending in "*" as a key
Excluded_NoWildcard(key, excludePatterns) ==
    \E i \in 1..Len(excludePatterns) : Chars(key) = excludePatterns[i]

\* the inner loop of filterFunc: some pattern excludes the key
Excluded(key, excludePatterns) ==
    \E i \in 1..Len(excludePatterns) :
        IF HasSuffixStar(excludePatterns[i])
        THEN HasPrefix(Chars(key),
                       SubSeq(excludePatterns[i], 1, Len(excludePatterns[i]) - 1))
        ELSE Chars(key) = excludePatterns[i]

filterFunc(data, excludePatterns) ==
    [key \in {k \in DOMAIN data : ~Excluded(k, excludePatterns)} |-> data[key]]

\* time.Parse with the layouts of dateFunc: the one date text of the model
\* is in the layout 2006-01-02
ParsesAsDate(v) == v = <<"2024-01-02">>
\* t.Format(f.preferredDateFmt) for the parsed date and for time.Unix(sec, 0)
FormattedDate(v) == v \o <<" ", "00:00:00">>
FormattedUnix(sec) == <<"unix ">> \o Digits(sec)

\* dateFunc that gives up on a string it cannot parse
dateFunc_BlankOnFailure(value) ==
    IF value.k = "string" /\ ~ParsesAsDate(value.v) THEN <<>> ELSE Sprintf(value)

dateFunc(value) ==
    IF value.k = "nil" THEN <<>>
    ELSE IF value.k = "string"
    THEN (IF ParsesAsDate(value.v) THEN FormattedDate(value.v) ELSE value.v)
    ELSE IF value.k = "number" THEN FormattedUnix(value.v)
    ELSE Sprintf(value)

\* time.Duration is a count of nanoseconds in 64 bits: a duration is kept
\* as sec whole seconds (rounded down) and nsec nanoseconds on top of them
Microsecond == 1000
Millisecond == 1000000
Second == 1000000000
Duration(sec, nsec) == [sec |-> sec, nsec |-> nsec]

\* time.Duration(v) * time.Millisecond
Milliseconds(ms) == Duration(ms \div 1000, (ms % 1000) * Millisecond)

\* d < n for a threshold n of at most one second
DurationLess(d, n) == d.sec < 0 \/ (d.sec = 0 /\ d.nsec < n)

\* the nine digits of a count of nanoseconds below one second
RECURSIVE PadLeft(_, _)
PadLeft(digits, n) == IF Len(digits) >= n THEN digits ELSE PadLeft(<<"0">> \o digits, n)

\* fmt.Sprintf("%d", d.Nanoseconds())
NanosecondsText(d) ==
    IF d.sec >= 0
    THEN (IF d.sec = 0 THEN Digits(d.nsec)
          ELSE Digits(d.sec) \o PadLeft(Digits(d.nsec), 9))
    ELSE LET whole == IF d.nsec = 0 THEN 0 - d.sec ELSE 0 - d.sec - 1
             below == IF d.nsec = 0 THEN 0 ELSE Second - d.nsec
         IN  <<"-">> \o (IF whole = 0 THEN Digits(below)
                         ELSE Digits(whole) \o PadLeft(Digits(below), 9))

\* fmt.Sprintf("%.2f", float64(n) / float64(unit)) for 0 <= n < Second on top
\* of whole units; a third decimal of exactly 5 is rounded up
TwoDigits(n) == (IF n < 10 THEN <<"0">> ELSE <<>>) \o Digits(n)
Fixed2(whole, n, unit) ==
    LET step == unit \div 100
        q == 100 * whole + (n \div step) + (IF 2 * (n % step) >= step THEN 1 ELSE 0)
    IN  Digits(q \div 100) \o <<".">> \o TwoDigits(q % 100)

\* the sign that stands for the micro sign of the format string
MicroSign == "u+00B5"

\* d.String() for a duration of ten seconds or more: hours, minutes and
\* seconds, the leading units that are zero left out, the fraction of a
\* second without its trailing zeros
DurationString(d) ==
    LET h == d.sec \div 3600
        m == (d.sec % 3600) \div 60
        sec == d.sec % 60
    IN  (IF h > 0 THEN Digits(h) \o <<"h">> ELSE <<>>)
        \o (IF h > 0 \/ m > 0 THEN Digits(m) \o <<"m">> ELSE <<>>)
        \o Digits(sec)
        \o (IF d.nsec = 0 THEN <<>>
            ELSE <<".">> \o TrimZeros(PadLeft(Digits(d.nsec), 9)))
        \o <<"s">>

formatDuration(d) ==
    IF DurationLess(d, Microsecond) THEN NanosecondsText(d) \o <<"n", "s">>
    ELSE IF DurationLess(d, Millisecond)
    THEN Fixed2(0, d.nsec, Microsecond) \o <<MicroSign, "s">>
    ELSE IF DurationLess(d, Second)
    THEN Fixed2(0, d.nsec, Millisecond) \o <<"m", "s">>
    ELSE IF d.sec < 10 THEN Fixed2(d.sec, d.nsec, Second) \o <<"s">>
    ELSE DurationString(d)

\* time.ParseDuration for digits followed by ms or s, in milliseconds
ParseDuration(v) ==
    IF Len(v) > 2 /\ SubSeq(v, Len(v) - 1, Len(v)) = <<"m", "s">>
       /\ Atoi(SubSeq(v, 1, Len(v) - 2)).ok
    THEN [ok |-> TRUE, ms |-> Atoi(SubSeq(v, 1, Len(v) - 2)).n]
    ELSE IF Len(v) > 1 /\ v[Len(v)] = "s" /\ Atoi(SubSeq(v, 1, Len(v) - 1)).ok
    THEN [ok |-> TRUE, ms |-> 1000 * Atoi(SubSeq(v, 1, Len(v) - 1)).n]
    ELSE [ok |-> FALSE, ms |-> 0]

parseDuration(value) ==
    IF value.k = "string" THEN ParseDuration(value.v)
    ELSE IF value.k \in {"number", "int"} THEN [ok |-> TRUE, ms |-> value.v]
    ELSE [ok |-> FALSE, ms |-> 0]

durationFunc(value, nc) ==
    IF parseDuration(value).ok
    THEN {formatDuration(Milliseconds(parseDuration(value).ms))}
    ELSE prettyFunc(value, nc)

\* the width and indent parameters of wrapFunc: an int as it is, anything
\* else through strconv.Atoi of its %v, the default when neither works
IntParameter(param, default) ==
    IF param.k = "nil" THEN default
    ELSE IF param.k = "int" THEN param.v
    ELSE IF Atoi(Sprintf(param)).ok THEN Atoi(Sprintf(param)).n
    ELSE default

\* the loop of wrapFunc over words[k..]: lineLength is the length of the
\* line being written without its indent
RECURSIVE WrapFrom(_, _, _, _, _, _)
WrapFrom(words, k, lineLength, isFirstLine, widthVal, indentVal) ==
    IF k > Len(words) THEN <<>>
    ELSE LET word == words[k]
             currentWidth == IF isFirstLine THEN widthVal ELSE widthVal - indentVal
             spaceNeeded == IF lineLength > 0 THEN 1 ELSE 0
         IN  IF lineLength + Len(word) + spaceNeeded > currentWidth
             THEN <<NL>> \o Spaces(indentVal) \o word
                  \o WrapFrom(words, k + 1, Len(word), FALSE, widthVal, indentVal)
             ELSE Spaces(spaceNeeded) \o word
                  \o WrapFrom(words, k + 1, lineLength + spaceNeeded + Len(word),
                              isFirstLine, widthVal, indentVal)

wrapFunc(width, indent, value) ==
    IF value.k = "nil" THEN noValueStr
    ELSE LET text == Sprintf(value)
             given == IntParameter(width, 80)
             widthVal == IF given <= 0 THEN 80 ELSE given
             indentGiven == IntParameter(indent, 0)
             indentVal == IF indentGiven < 0 THEN 0 ELSE indentGiven
         IN  IF text = <<>> THEN <<>>
             ELSE WrapFrom(Fields(text), 1, 0, TRUE, widthVal, indentVal)

\* the conversion of an operand of mult to a float64
ToFloat(operand) ==
    IF operand.k \in {"int", "number"} THEN [ok |-> TRUE, n |-> operand.v]
    ELSE Atoi(Sprintf(operand))

multFunc(arg, value) ==
    IF arg.k = "nil" \/ value.k = "nil" THEN nanStr
    ELSE IF ~ToFloat(arg).ok \/ ~ToFloat(value).ok THEN nanStr
    ELSE Digits(ToFloat(arg).n * ToFloat(value).n)

(***************************************************************************)
(* Calls of the template functions                                         *)
(***************************************************************************)
MaxTruncLen == 5
MaxTextLen == 6
MaxPatterns == 2
MaxWrapLen == 5
MaxWrapWidth == 3
MaxWrapIndent == 2

LibKeys == {"a", "ab", "b"}
LibScalars ==
    {Nil, StrVal(<<>>), StrVal(<<"h", "i">>), StrVal(<<ESC, "x">>), NumVal(5), BoolVal(TRUE)}
\* {"a":5,"b":"hi"}, [5,"hi"] and []
LibNested ==
    {MapVal([key \in {"a", "b"} |-> IF key = "a" THEN NumVal(5) ELSE StrVal(<<"h", "i">>)]),
     ArrVal(<<NumVal(5), StrVal(<<"h", "i">>)>>),
     ArrVal(<<>>)}
\* the values of the entries of a map
EntryValues ==
    {Nil, StrVal(<<>>), StrVal(<<ESC, "x">>), NumVal(5),
     MapVal([key \in {"a", "b"} |-> IF key = "a" THEN NumVal(5) ELSE StrVal(<<"h", "i">>)])}
LibMaps == UNION {[keys -> EntryValues] : keys \in SUBSET LibKeys}
LibValues == LibScalars \cup LibNested \cup {MapVal(m) : m \in LibMaps}

\* the texts of length n over a and b, and the texts trunc is called with
RECURSIVE TextsOfLen(_)
TextsOfLen(n) ==
    IF n = 0 THEN {<<>>}
    ELSE {Append(t, c) : t \in TextsOfLen(n - 1), c \in {"a", "b"}}
TruncTexts == UNION {TextsOfLen(n) : n \in 0..MaxTextLen}

\* the records and the pattern lists filter is called with
FilterRecords == UNION {[keys -> {Nil, NumVal(5), StrVal(<<"h", "i">>)}] : keys \in SUBSET LibKeys}
FilterPatterns == {<<"a">>, <<"a", "*">>, <<"b">>, <<"a", "b">>, <<"*">>}
RECURSIVE PatternLists(_)
PatternLists(n) ==
    IF n = 0 THEN {<<>>}
    ELSE PatternLists(n - 1)
         \cup {Append(ps, pattern) : ps \in PatternLists(n - 1), pattern \in FilterPatterns}

\* the values date, duration and mult are called with: one of each kind
CoercionValues ==
    {Nil, StrVal(<<"x">>), StrVal(<<"2024-01-02">>), StrVal(<<"5", "m", "s">>),
     StrVal(<<"5">>), NumVal(5), NumVal(1500), BoolVal(TRUE)} \cup LibNested

\* what the call c can return with f.noColors = nc
Render(c, nc) ==
    IF c.fn = "color" THEN {colorFunc(c.args[1], c.args[2], nc)}
    ELSE IF c.fn = "colorByLevel" THEN {colorByLevelFunc(c.args[1], c.args[2], nc)}
    ELSE IF c.fn = "bold" THEN {boldFunc(c.args[1], nc)}
    ELSE IF c.fn = "italic" THEN {italicFunc(c.args[1], nc)}
    ELSE IF c.fn = "underline" THEN {underlineFunc(c.args[1], nc)}
    ELSE IF c.fn = "dim" THEN {dimFunc(c.args[1], nc)}
    ELSE IF c.fn = "pretty" THEN prettyFunc(c.args[1], nc)
    ELSE IF c.fn = "table" THEN tableWrapper(c.args, nc)
    ELSE IF c.fn = "trunc" THEN {truncFunc(c.args[1], c.args[2])}
    ELSE IF c.fn = "filter" THEN {filterFunc(c.args[1], c.args[2])}
    ELSE IF c.fn = "date" THEN {dateFunc(c.args[1])}
    ELSE IF c.fn = "duration" THEN durationFunc(c.args[1], nc)
    ELSE IF c.fn = "formatDuration" THEN {formatDuration(c.args[1])}
    ELSE IF c.fn = "wrap" THEN {wrapFunc(c.args[1], c.args[2], c.args[3])}
    ELSE IF c.fn = "mult" THEN {multFunc(c.args[1], c.args[2])}
    ELSE {Prefix(nc) \o c.args[1]}

\* the template calls a function
Call(c) ==
    /\ call' = c
    /\ \E s \in Render(c, noColors) : ret' = Returned(s)
    /\ UNCHANGED ret2
    /\ UNCHANGED <<colorInput, applyResult, stripResult, colorPc>>
    /\ UNCHANGED runVars
    /\ UNCHANGED streamVars
    /\ UNCHANGED preVars

\* the same record is rendered once more
CallAgain ==
    /\ call # NotCalled
    /\ ret2 = NoResult
    /\ \E s \in Render(call, noColors) : ret2' = Returned(s)
    /\ UNCHANGED <<call, ret>>
    /\ UNCHANGED <<colorInput, applyResult, stripResult, colorPc>>
    /\ UNCHANGED runVars
    /\ UNCHANGED streamVars
    /\ UNCHANGED preVars

\* the values the color functions are called with, and with them the maps
\* pretty and table are called with
StyleValues == LibScalars \cup LibNested

CallColor ==
    /\ call = NotCalled
    /\ \E colorName \in {<<"red">>, <<"none">>}, value \in StyleValues :
           Call([fn |-> "color", args |-> <<colorName, value>>])
CallColorByLevel ==
    /\ call = NotCalled
    /\ \E level \in {Nil, StrVal(<<"error">>), StrVal(<<"info">>)}, value \in StyleValues :
           Call([fn |-> "colorByLevel", args |-> <<level, value>>])
CallBold ==
    /\ call = NotCalled
    /\ \E value \in StyleValues : Call([fn |-> "bold", args |-> <<value>>])
CallItalic ==
    /\ call = NotCalled
    /\ \E value \in StyleValues : Call([fn |-> "italic", args |-> <<value>>])
CallUnderline ==
    /\ call = NotCalled
    /\ \E value \in StyleValues : Call([fn |-> "underline", args |-> <<value>>])
CallDim ==
    /\ call = NotCalled
    /\ \E value \in StyleValues : Call([fn |-> "dim", args |-> <<value>>])
CallPretty ==
    /\ call = NotCalled
    /\ \E value \in LibValues : Call([fn |-> "pretty", args |-> <<value>>])
CallTable ==
    /\ call = NotCalled
    /\ \/ \E value \in LibValues : Call([fn |-> "table", args |-> <<value>>])
       \/ \E padding \in {IntVal(3), StrVal(<<"4">>)}, value \in LibValues :
              Call([fn |-> "table", args |-> <<padding, value>>])
CallTrunc ==
    /\ call = NotCalled
    /\ \/ \E n \in 1..MaxTruncLen, text \in TruncTexts :
              Call([fn |-> "trunc", args |-> <<IntVal(n), StrVal(text)>>])
       \/ \E maxLen \in {Nil, IntVal(0), StrVal(<<"2">>), IntVal(4)}, value \in StyleValues :
              Call([fn |-> "trunc", args |-> <<maxLen, value>>])
CallFilter ==
    /\ call = NotCalled
    /\ \E data \in FilterRecords, excludePatterns \in PatternLists(MaxPatterns) :
           Call([fn |-> "filter", args |-> <<data, excludePatterns>>])
CallDate ==
    /\ call = NotCalled
    /\ \E value \in CoercionValues : Call([fn |-> "date", args |-> <<value>>])
CallDuration ==
    /\ call = NotCalled
    /\ \E value \in CoercionValues : Call([fn |-> "duration", args |-> <<value>>])
\* the durations formatDuration is called with: whole seconds on either
\* side of zero and of the ten seconds, and nanoseconds around each threshold
DurationSeconds == {-3600, -5, -1, 0, 1, 9, 10, 90, 3661}
DurationNanoseconds ==
    {0, 1, 999, 1000, 1500, 999990, 1000000, 250000001, 999999999}

CallFormatDuration ==
    /\ call = NotCalled
    /\ \E sec \in DurationSeconds, nsec \in DurationNanoseconds :
           Call([fn |-> "formatDuration", args |-> <<Duration(sec, nsec)>>])
\* the texts of length n over a, b and the space that wrap is called with
RECURSIVE WrapTextsOfLen(_)
WrapTextsOfLen(n) ==
    IF n = 0 THEN {<<>>}
    ELSE {Append(t, c) : t \in WrapTextsOfLen(n - 1), c \in {"a", "b", " "}}
WrapTexts == UNION {WrapTextsOfLen(n) : n \in 0..MaxWrapLen}

CallWrap ==
    /\ call = NotCalled
    /\ \E width \in {Nil} \cup {IntVal(w) : w \in 0..MaxWrapWidth},
          indent \in {Nil} \cup {IntVal(i) : i \in 0..MaxWrapIndent},
          value \in {Nil} \cup {StrVal(text) : text \in WrapTexts} :
           Call([fn |-> "wrap", args |-> <<width, indent, value>>])
CallMult ==
    /\ call = NotCalled
    /\ \E arg \in {IntVal(2), Nil, StrVal(<<"x">>)}, value \in CoercionValues :
           Call([fn |-> "mult", args |-> <<arg, value>>])
\* ProcessStream puts the marker in front of a non-JSON line
CallMarker ==
    /\ call = NotCalled
    /\ \E text \in {LineText.text, LineArray.text, <<ESC, "x">>} :
           Call([fn |-> "marker", args |-> <<text>>])

InitLib ==
    /\ NoStream
    /\ noColors \in BOOLEAN
    /\ PreIdle
    /\ ColorIdle
    /\ CallIdle
    /\ RunIdle

NextLib ==
    \/ CallColor
    \/ CallColorByLevel
    \/ CallBold
    \/ CallItalic
    \/ CallUnderline
    \/ CallDim
    \/ CallPretty
    \/ CallTable
    \/ CallTrunc
    \/ CallFilter
    \/ CallDate
    \/ CallDuration
    \/ CallFormatDuration
    \/ CallWrap
    \/ CallMult
    \/ CallMarker
    \/ CallAgain

SpecLib == InitLib /\ [][NextLib]_vars

(***************************************************************************)
(* Vocabulary of the template function claims                              *)
(***************************************************************************)
HasEsc(s) == \E i \in 1..Len(s) : s[i] = ESC

\* the value holds an ESC in one of its strings
RECURSIVE ValueHasEsc(_)
ValueHasEsc(value) ==
    IF value.k = "string" THEN HasEsc(value.v)
    ELSE IF value.k \in {"array", "map"}
    THEN \E x \in DOMAIN value.v : ValueHasEsc(value.v[x])
    ELSE FALSE

\* the data handed to the call holds an ESC
InputHasEsc(c) ==
    IF c.fn = "marker" THEN HasEsc(c.args[1])
    ELSE IF c.fn = "color" THEN ValueHasEsc(c.args[2])
    ELSE \E i \in 1..Len(c.args) : ValueHasEsc(c.args[i])

Called(fn) == call.fn = fn /\ ret.ok

(***************************************************************************)
(* C13. With noColors set nothing the formatter produces brings in an      *)
(* escape sequence: what color, colorByLevel, bold, italic, underline,     *)
(* dim, pretty and table return, and the marker ProcessStream puts in      *)
(* front of a non-JSON line, hold an ESC only if the data handed in did.   *)
(***************************************************************************)
C13_NoColorsNoEscape ==
    (/\ noColors
     /\ call.fn \in {"color", "colorByLevel", "bold", "italic", "underline", "dim",
                     "pretty", "table", "marker"}
     /\ ret.ok)
    => (HasEsc(ret.s) => InputHasEsc(call))

\* bold of a string, which is what comes back
C13_Witness ==
    /\ noColors
    /\ Called("bold")
    /\ call.args = <<StrVal(<<"h", "i">>)>>
    /\ ret.s = <<"h", "i">>

(***************************************************************************)
(* C14. Rendering is deterministic: two renderings of the same record with *)
(* the same template and options give the same string, also where the      *)
(* template applies pretty or table to a map of two or more keys.          *)
(***************************************************************************)
C14_SameRecordSameText ==
    (call.fn \notin {"none", "filter"} /\ ret.ok /\ ret2.ok) => ret2.s = ret.s

(***************************************************************************)
(* C18. For a value that is not nil, with string form s, and an integer    *)
(* n >= 1: trunc(n, s) is s when len(s) <= n; has length n, ends in "..."  *)
(* and starts with the first n-3 characters of s when len(s) > n >= 4; is  *)
(* the first n characters of s when len(s) > n and n < 4.                  *)
(***************************************************************************)
C18_TruncLength ==
    (/\ Called("trunc")
     /\ call.args[1].k = "int" /\ call.args[1].v >= 1
     /\ call.args[2].k # "nil")
    => LET n == call.args[1].v
           str == Sprintf(call.args[2])
       IN  /\ Len(str) <= n => ret.s = str
           /\ (Len(str) > n /\ n >= 4) =>
                 /\ Len(ret.s) = n
                 /\ \A i \in (n - 2)..n : ret.s[i] = "."
                 /\ \A i \in 1..(n - 3) : ret.s[i] = str[i]
           /\ (Len(str) > n /\ n < 4) =>
                 /\ Len(ret.s) = n
                 /\ \A i \in 1..n : ret.s[i] = str[i]

\* the three cases: trunc 5 "ababab", trunc 3 "ababab", trunc 5 "ab"
C18_Witness ==
    /\ Called("trunc")
    /\ \/ /\ call.args = <<IntVal(5), StrVal(<<"a", "b", "a", "b", "a", "b">>)>>
          /\ ret.s = <<"a", "b", ".", ".", ".">>
       \/ /\ call.args = <<IntVal(3), StrVal(<<"a", "b", "a", "b", "a", "b">>)>>
          /\ ret.s = <<"a", "b", "a">>
       \/ /\ call.args = <<IntVal(5), StrVal(<<"a", "b">>)>>
          /\ ret.s = <<"a", "b">>

(***************************************************************************)
(* C19. filter returns a new mapping whose keys are exactly the keys of    *)
(* the record that no pattern matches (a pattern ending in "*" matches     *)
(* every key that starts with the text before the "*", any other pattern   *)
(* only the identical key), each with the value it has in the record; the  *)
(* record is not modified (the same call made again returns the same).     *)
(***************************************************************************)
PatternMatches(pattern, key) ==
    IF Len(pattern) > 0 /\ pattern[Len(pattern)] = "*"
    THEN /\ Len(Chars(key)) >= Len(pattern) - 1
         /\ \A i \in 1..(Len(pattern) - 1) : Chars(key)[i] = pattern[i]
    ELSE Chars(key) = pattern

C19_FilterKeepsUnmatched ==
    Called("filter") =>
        LET data == call.args[1]
            patterns == call.args[2]
        IN  /\ DOMAIN ret.s =
                  {key \in DOMAIN data :
                      \A i \in 1..Len(patterns) : ~PatternMatches(patterns[i], key)}
            /\ \A key \in DOMAIN ret.s : ret.s[key] = data[key]
            /\ ret2.ok => ret2.s = ret.s

\* {a, ab, b} filtered with "a*" and with "a"
C19_Witness ==
    /\ Called("filter")
    /\ DOMAIN call.args[1] = {"a", "ab", "b"}
    /\ \/ call.args[2] = << <<"a", "*">> >> /\ DOMAIN ret.s = {"b"}
       \/ call.args[2] = << <<"a">> >> /\ DOMAIN ret.s = {"ab", "b"}

(***************************************************************************)
(* C20. The output of table for a mapping has exactly one line for each    *)
(* entry whose value is neither nil nor the empty string, in ascending key *)
(* order, and no empty line before, between or after them; it is empty     *)
(* when no entry qualifies.                                                *)
(***************************************************************************)
\* the lines of s: the text between its newlines
RECURSIVE SplitLines(_, _)
SplitLines(s, line) ==
    IF Len(s) = 0 THEN <<line>>
    ELSE IF s[1] = NL THEN <<line>> \o SplitLines(Tail(s), <<>>)
    ELSE SplitLines(Tail(s), Append(line, s[1]))

\* the keys of the entries table shows, in ascending order
ShownKeys(m) ==
    SortedKeys({key \in DOMAIN m :
                   m[key].k # "nil" /\ ~(m[key].k = "string" /\ m[key].v = <<>>)})

TableArgument == call.args[Len(call.args)]

C20_TableOneLinePerEntry ==
    (Called("table") /\ TableArgument.k = "map") =>
        LET shown == ShownKeys(TableArgument.v)
            rows == SplitLines(ret.s, <<>>)
        IN  IF Len(shown) = 0 THEN ret.s = <<>>
            ELSE /\ Len(rows) = Len(shown)
                 /\ \A i \in 1..Len(rows) :
                       /\ rows[i] # <<>>
                       /\ HasPrefix(RemoveEscapes(rows[i], 1), <<" ", " ">> \o Chars(shown[i]))

(***************************************************************************)
(* runLogista: the formatter is constructed, then the stream is processed  *)
(***************************************************************************)
MaxRunLines == 3

\* the keys of the template.FuncMap and the functions text/template
\* predefines
FuncMapNames ==
    {"date", "pad", "pretty", "table", "duration", "wrap", "trunc", "mult", "printf",
     "eq", "ne", "gt", "lt", "color", "colorByLevel", "bold", "italic", "underline",
     "dim", "hasPrefix", "filter"}
Builtins ==
    {"and", "call", "html", "index", "slice", "js", "len", "not", "or", "print",
     "printf", "println", "urlquery", "eq", "ge", "gt", "le", "lt", "ne"}

\* the words of a format string that are not field names
Identifiers == FuncMapNames \cup Builtins \cup {"nofunc"}

\* the format strings of the model
TplId == <<"{", "{", ".", "id", "}", "}">>
TplSimpleId == <<"{", "id", "}">>
TplDate == <<"{", "{", "date", " ", ".", "d", "}", "}">>
TplDuration == <<"{", "{", "duration", " ", ".", "d", "}", "}">>
TplMult == <<"{", "{", "mult", " ", "2", " ", ".", "d", "}", "}">>
TplPad == <<"{", "{", "pad", " ", ".", "id", " ", ".", "d", "}", "}">>
TplUnclosed == <<"{", "{", ".", "id">>
TplNoFunc == <<"{", "{", "nofunc", " ", ".", "id", "}", "}">>
TplEmpty == <<"{", "{", "}", "}">>

RunTemplates ==
    {TplId, TplSimpleId, TplDate, TplDuration, TplMult, TplPad,
     TplUnclosed, TplNoFunc, TplEmpty}

\* the first i >= from where t holds "}}", or 0
RECURSIVE RightDelim(_, _)
RightDelim(t, from) ==
    IF from + 1 > Len(t) THEN 0
    ELSE IF t[from] = "}" /\ t[from + 1] = "}" THEN from
    ELSE RightDelim(t, from + 1)

\* what is wrong with the text of an action, or "none"
CommandError(cmd) ==
    IF \A k \in 1..Len(cmd) : cmd[k] = " " THEN "missing value for command"
    ELSE IF \E k \in 1..Len(cmd) : cmd[k] \in {"{", "}"} THEN "unexpected character"
    ELSE IF \E k \in 1..Len(cmd) :
               /\ cmd[k] \in Identifiers
               /\ (k = 1 \/ cmd[k - 1] # ".")
               /\ cmd[k] \notin FuncMapNames \cup Builtins
    THEN "function not defined"
    ELSE "none"

TextNode(c) == [kind |-> "text", text |-> <<c>>]
ActionNode(cmd) == [kind |-> "action", text |-> cmd]

\* tmpl.Parse(format) from position i on: the nodes of the tree, or the error
RECURSIVE ParseFrom(_, _)
ParseFrom(t, i) ==
    IF i > Len(t) THEN [ok |-> TRUE, tree |-> <<>>, err |-> "none"]
    ELSE IF i < Len(t) /\ t[i] = "{" /\ t[i + 1] = "{"
    THEN LET j == RightDelim(t, i + 2)
         IN  IF j = 0 THEN [ok |-> FALSE, tree |-> <<>>, err |-> "unclosed action"]
             ELSE LET cmd == SubSeq(t, i + 2, j - 1)
                      rest == ParseFrom(t, j + 2)
                  IN  IF CommandError(cmd) # "none"
                      THEN [ok |-> FALSE, tree |-> <<>>, err |-> CommandError(cmd)]
                      ELSE IF ~rest.ok THEN rest
                      ELSE [rest EXCEPT !.tree = <<ActionNode(cmd)>> \o rest.tree]
    ELSE LET rest == ParseFrom(t, i + 1)
         IN  IF ~rest.ok THEN rest
             ELSE [rest EXCEPT !.tree = <<TextNode(t[i])>> \o rest.tree]

Parse(format) == ParseFrom(format, 1)

\* NewTemplateFormatterWithOptions that returns the formatter although Parse
\* failed
Constructed_IgnoreError(format) ==
    [state |-> "ok", template |-> Parse(format).tree, err |-> "none"]

\* what NewTemplateFormatterWithOptions returns for the preprocessed format
Constructed(format) ==
    IF Parse(format).ok
    THEN [state |-> "ok", template |-> Parse(format).tree, err |-> "none"]
    ELSE [state |-> "error", template |-> <<>>, err |-> Parse(format).err]

\* the value of the field .name handed to a function, and printed
FieldArg(data, name) == IF name \in DOMAIN data THEN data[name] ELSE Nil
FieldPrint(data, name) ==
    IF FieldArg(data, name).k = "nil" THEN noValueStr ELSE Sprintf(FieldArg(data, name))

Failed == [ok |-> FALSE, s |-> <<>>]
Texts(strs) == {[ok |-> TRUE, s |-> str] : str \in strs}

\* the outcomes of evaluating one action of the model's templates on data
EvalCommand(cmd, data, nc) ==
    CASE Len(cmd) = 2 /\ cmd[1] = "."
           -> Texts({FieldPrint(data, cmd[2])})
      [] Len(cmd) = 4 /\ cmd[1] = "date"
           -> Texts({dateFunc(FieldArg(data, cmd[4]))})
      [] Len(cmd) = 4 /\ cmd[1] = "duration"
           -> Texts(durationFunc(FieldArg(data, cmd[4]), nc))
      [] Len(cmd) = 6 /\ cmd[1] = "mult"
           -> Texts({multFunc(IntVal(AtoiValue(<<cmd[3]>>)), FieldArg(data, cmd[6]))})
      \* pad(length int, ...): no decoded value is an int
      [] Len(cmd) = 7 /\ cmd[1] = "pad"
           -> {Failed}

\* template.Execute from node i on
RECURSIVE ExecuteFrom(_, _, _, _)
ExecuteFrom(tree, i, data, nc) ==
    IF i > Len(tree) THEN Texts({<<>>})
    ELSE LET heads == IF tree[i].kind = "text" THEN Texts({tree[i].text})
                      ELSE EvalCommand(tree[i].text, data, nc)
             rests == ExecuteFrom(tree, i + 1, data, nc)
         IN  {IF h.ok /\ r.ok THEN [ok |-> TRUE, s |-> h.s \o r.s] ELSE Failed :
                  h \in heads, r \in rests}

\* f.Format(data) with the parsed template
FormatWith(tree, data, nc) == ExecuteFrom(tree, 1, data, nc)

\* json.Unmarshal of a numeral: the float64 nearest to it
UnmarshalNumber(numeral) == NumVal(AtoiValue(numeral))

\* {"id":1234567}
LineId == [text |-> <<"{", "\"id\"", ":", "1", "2", "3", "4", "5", "6", "7", "}">>,
           json |-> "object",
           data |-> [f \in {"id"} |-> UnmarshalNumber(<<"1", "2", "3", "4", "5", "6", "7">>)]]
\* {"id":12,"d":"x"}
LineStr == [text |-> <<"{", "\"id\"", ":", "1", "2", ",", "\"d\"", ":", "\"", "x", "\"", "}">>,
            json |-> "object",
            data |-> [f \in {"id", "d"} |->
                         IF f = "id" THEN UnmarshalNumber(<<"1", "2">>) ELSE StrVal(<<"x">>)]]
\* {"d":1500}
LineNum == [text |-> <<"{", "\"d\"", ":", "1", "5", "0", "0", "}">>,
            json |-> "object",
            data |-> [f \in {"d"} |-> UnmarshalNumber(<<"1", "5", "0", "0">>)]]
\* {"d":true}
LineBool == [text |-> <<"{", "\"d\"", ":", "true", "}">>,
             json |-> "object",
             data |-> [f \in {"d"} |-> BoolVal(TRUE)]]
\* {"d":{"a":5,"b":"hi"}}
LineMap == [text |-> <<"{", "\"d\"", ":", "{", "\"a\"", ":", "5", ",", "\"b\"", ":",
                       "\"", "h", "i", "\"", "}", "}">>,
            json |-> "object",
            data |-> [f \in {"d"} |->
                         MapVal([k \in {"a", "b"} |->
                                    IF k = "a" THEN UnmarshalNumber(<<"5">>)
                                    ELSE StrVal(<<"h", "i">>)])]]
\* {"d":[1]}
LineSeq == [text |-> <<"{", "\"d\"", ":", "[", "1", "]", "}">>,
            json |-> "object",
            data |-> [f \in {"d"} |-> ArrVal(<<UnmarshalNumber(<<"1">>)>>)]]
\* {"d":null}
LineNil == [text |-> <<"{", "\"d\"", ":", "null", "}">>,
            json |-> "object",
            data |-> [f \in {"d"} |-> Nil]]
\* {"level":"b"}: the record the skip pattern of the run matches
LineSkip == [text |-> <<"{", "\"level\"", ":", "\"", "b", "\"", "}">>,
             json |-> "object",
             data |-> [f \in {"level"} |-> StrVal(<<"b">>)]]

RunInput == {LineId, LineStr, LineNum, LineBool, LineMap, LineSeq, LineNil,
             LineSkip, LineText}

\* --skip level=b
RunSkipPatterns == <<SkipPattern("level", <<"b">>)>>

\* runLogista up to its call of ProcessStream
NewTemplateFormatter ==
    /\ tmplFormatter = NotConstructed
    /\ pre = "edit"
    /\ result' = PreProcessTemplate(template, options)
    /\ pre' = "done"
    /\ tmplFormatter' = Constructed(result')
    /\ UNCHANGED goVars
    /\ UNCHANGED <<template, options, again>>
    /\ UNCHANGED streamVars
    /\ UNCHANGED colorVars
    /\ UNCHANGED callVars

\* ProcessStream is only reached with a formatter
Streaming == tmplFormatter.state = "ok" /\ Len(lines) < MaxRunLines

\* the record is formatted with the parsed template and written
RunRecord(line) ==
    /\ Streaming
    /\ CanScan
    /\ line.text # <<>>
    /\ Unmarshal(line).ok
    /\ ~shouldSkip(Unmarshal(line).data, skipPatterns)
    /\ lines' = Append(lines, line)
    /\ \E f \in FormatWith(tmplFormatter.template, Unmarshal(line).data, noColors) :
          LET n == Len(lines) + 1
              sep == IF inNonJSON THEN <<Write(n, <<NL>>)>> ELSE <<>>
          IN  IF f.ok
              THEN \E k \in 0..(Len(sep) + 1) :
                       DoWrites(sep \o <<Write(n, f.s \o <<NL>>)>>, k, FALSE)
              ELSE \/ /\ Len(sep) = 1
                      /\ DoWrites(sep, 0, FALSE)
                   \/ /\ out' = out \o sep
                      /\ inNonJSON' = FALSE
                      /\ status' = "failed"
                      /\ err' = [kind |-> "render", text |-> <<>>]
    /\ UNCHANGED <<handleNonJSON, skipPatterns, noColors>>
    /\ UNCHANGED preVars
    /\ UNCHANGED libVars

InitRun ==
    /\ handleNonJSON \in BOOLEAN
    /\ skipPatterns = RunSkipPatterns
    /\ noColors \in BOOLEAN
    /\ lines = <<>>
    /\ inNonJSON = FALSE
    /\ out = <<>>
    /\ status = "running"
    /\ err = [kind |-> "none", text |-> <<>>]
    /\ template \in RunTemplates
    /\ options = TRUE
    /\ pre = "edit"
    /\ result = <<>>
    /\ again = <<>>
    /\ LibIdle

NextRun ==
    \/ NewTemplateFormatter
    \/ Streaming /\ ScanEmpty
    \/ \E line \in RunInput : Streaming /\ ScanNonJSON(line)
    \/ \E line \in RunInput : Streaming /\ ScanInvalid(line)
    \/ \E line \in RunInput : Streaming /\ ScanSkipped(line)
    \/ \E line \in RunInput : RunRecord(line)
    \/ tmplFormatter.state = "ok" /\ EndOfInput
    \/ tmplFormatter.state = "ok" /\ ScanError

SpecRun == InitRun /\ [][NextRun]_vars

(***************************************************************************)
(* Vocabulary of the run claims                                            *)
(***************************************************************************)
\* the digits that follow key and ":" in the text of a line
RECURSIVE DigitsFrom(_, _)
DigitsFrom(text, i) ==
    IF i <= Len(text) /\ IsDigit(text[i]) THEN <<text[i]>> \o DigitsFrom(text, i + 1)
    ELSE <<>>

NumeralOf(text, key) ==
    LET k == CHOOSE k \in 1..(Len(text) - 1) : text[k] = key /\ text[k + 1] = ":"
    IN  DigitsFrom(text, k + 2)

\* line n is a record that ProcessStream formats
IsShownRecord(n) ==
    /\ ~IsEmptyLine(lines[n])
    /\ Unmarshal(lines[n]).ok
    /\ ~shouldSkip(Unmarshal(lines[n]).data, skipPatterns)

\* what was written for record n: the last write of its iteration
RenderedText(n) == Last(WritesBy(n)).s

(***************************************************************************)
(* C15. A numeric field of a record is carried as the numeral it was       *)
(* written as: with a template that prints the field (and does not hand it *)
(* to date, duration or mult) the text written for the record is the       *)
(* numeral of the input line, digit for digit.                             *)
(***************************************************************************)
C15_NumeralRenderedAsWritten ==
    (tmplFormatter.state = "ok" /\ template \in {TplId, TplSimpleId}) =>
        \A n \in Completed :
            (/\ IsShownRecord(n)
             /\ "id" \in DOMAIN lines[n].data
             /\ lines[n].data["id"].k = "number")
            => /\ WritesBy(n) # <<>>
               /\ RenderedText(n) = NumeralOf(lines[n].text, "\"id\"") \o <<NL>>

(***************************************************************************)
(* C16. A template that does not compile (invalid syntax, or a function    *)
(* that is not registered) makes the construction of the formatter return  *)
(* an error and no formatter; no input line is read and nothing is         *)
(* written.                                                                *)
(***************************************************************************)
InvalidTemplates == {TplUnclosed, TplNoFunc, TplEmpty}

C16_CompileErrorBeforeAnyRecord ==
    (template \in InvalidTemplates /\ tmplFormatter # NotConstructed) =>
        /\ tmplFormatter.state = "error"
        /\ tmplFormatter.err # "none"
        /\ tmplFormatter.template = <<>>
        /\ lines = <<>>
        /\ out = <<>>

\* the constructor has returned the error of {{nofunc .id}}
C16_Witness ==
    /\ template = TplNoFunc
    /\ tmplFormatter.state = "error"
    /\ tmplFormatter.err = "function not defined"
    /\ lines = <<>>

(***************************************************************************)
(* C17. A value that date, duration or mult cannot convert is never fatal: *)
(* the function returns a string for a value of every kind (a date string  *)
(* that does not parse is returned as it is, a duration that does not      *)
(* parse is rendered as by pretty, a mult operand that is nil or not a     *)
(* number gives "NaN"), so ProcessStream writes the record and goes on to  *)
(* the lines after it.                                                     *)
(***************************************************************************)
CoercionTemplates == {TplDate, TplDuration, TplMult}

NotADate(d) == d.k = "string" /\ ~ParsesAsDate(d.v)
NotADuration(d) ==
    \/ d.k \in {"nil", "bool", "map", "array"}
    \/ d.k = "string" /\ ~ParseDuration(d.v).ok
NotANumber(d) ==
    \/ d.k \in {"nil", "bool", "map", "array"}
    \/ d.k = "string" /\ ~Atoi(d.v).ok

C17_CoercionNeverFatal ==
    (tmplFormatter.state = "ok" /\ template \in CoercionTemplates) =>
        /\ err.kind # "render"
        /\ \A n \in Completed :
              IsShownRecord(n) =>
                  LET d == FieldArg(lines[n].data, "d")
                  IN  /\ WritesBy(n) # <<>>
                      /\ (template = TplDate /\ NotADate(d))
                            => RenderedText(n) = d.v \o <<NL>>
                      /\ (template = TplDuration /\ NotADuration(d))
                            => RenderedText(n) \in {p \o <<NL>> : p \in prettyFunc(d, noColors)}
                      /\ (template = TplMult /\ NotANumber(d))
                            => RenderedText(n) = nanStr \o <<NL>>

\* {{mult 2 .d}}: "NaN" was written for d = "x" and the next record, whose d
\* is a map, was written after it
C17_Witness ==
    /\ template = TplMult
    /\ Len(lines) = 2
    /\ lines[1] = LineStr
    /\ lines[2] = LineMap
    /\ Len(out) = 2
    /\ out[1] = Write(1, nanStr \o <<NL>>)
    /\ out[2] = Write(2, nanStr \o <<NL>>)

(***************************************************************************)
(* Vocabulary of the stream mode claims                                    *)
(***************************************************************************)
\* the line scanned in this step decoded without an error
ScannedDecoded == Scanned /\ ~IsEmptyLine(lines'[NewLine]) /\ Unmarshal(lines'[NewLine]).ok
\* a write failed in this step
WriteFailed == status' = "failed" /\ err'.kind = "write"
\* ProcessStream has returned: nothing is read or written any more
Halted == status \in {"failed", "done"} => (lines' = lines /\ out' = out /\ err' = err)

(***************************************************************************)
(* C22. On every line that decodes, if the pipeline is in the non-JSON     *)
(* block it writes one blank line and leaves the block, and it does so     *)
(* before the skip patterns are looked at: a record that is then skipped   *)
(* ends the block as well.                                                 *)
(***************************************************************************)
C22_BlockEndsBeforeSkip ==
    [][(ScannedDecoded /\ inNonJSON) =>
          /\ inNonJSON' = FALSE
          /\ \/ WriteFailed /\ out' = out
             \/ /\ Len(out') > Len(out)
                /\ out'[Len(out) + 1] = Blank(NewLine)]_vars

\* C22 as amended: the skip patterns are looked at first. A record that is
\* skipped writes nothing and leaves the mode as it is; a record that is not
\* skipped, met in the non-JSON block, leaves the block and has one blank
\* line written before anything else.
C22_BlockEndsAfterSkip ==
    [][/\ (ScannedDecoded /\ MatchesPattern(lines'[NewLine])) =>
             /\ out' = out
             /\ inNonJSON' = inNonJSON
             /\ status' = "running"
       /\ (ScannedDecoded /\ ~MatchesPattern(lines'[NewLine]) /\ inNonJSON) =>
             /\ inNonJSON' = FALSE
             /\ \/ WriteFailed /\ out' = out
                \/ /\ Len(out') > Len(out)
                   /\ out'[Len(out) + 1] = Blank(NewLine)]_vars

\* a non-JSON line, a skipped record that leaves the block open, and a
\* record that closes it with the blank line
C22_Witness ==
    /\ handleNonJSON
    /\ skipPatterns = <<SkipPattern("level", <<"a">>)>>
    /\ lines = <<LineText, LineAB, LineB>>
    /\ out = <<Blank(1), Marked(1), Blank(3), Rendered(3)>>
    /\ ~inNonJSON

(***************************************************************************)
(* C23. While ProcessStream runs: it starts in JSON mode; it is in the     *)
(* non-JSON block exactly when non-JSON handling is enabled and the last   *)
(* line that produced output was a non-JSON line; with handling disabled   *)
(* the non-JSON block is never entered.                                    *)
(***************************************************************************)
C23_ModeFollowsLastOutput ==
    status # "failed" =>
        /\ lines = <<>> => ~inNonJSON
        /\ ~handleNonJSON => ~inNonJSON
        /\ inNonJSON <=> (/\ handleNonJSON
                          /\ out # <<>>
                          /\ DecodeFails(lines[Last(out).by]))

\* in the block after a non-JSON line, with a record rendered before it and
\* an empty line after it
C23_Witness ==
    /\ status = "running"
    /\ handleNonJSON
    /\ Len(lines) = 3
    /\ IsObject(lines[1]) /\ DecodeFails(lines[2]) /\ IsEmptyLine(lines[3])
    /\ Len(out) = 3
    /\ inNonJSON

(***************************************************************************)
(* C24. A non-empty line is treated as a record if and only if it is a     *)
(* JSON object; every other line, valid JSON that is not an object (such   *)
(* as an array or null) included, takes the decode-failure path: the       *)
(* stream aborts when handling is disabled, the line is passed through     *)
(* behind the marker when it is enabled.                                   *)
(***************************************************************************)
C24_OnlyObjectsAreRecords ==
    [][(Scanned /\ ~IsEmptyLine(lines'[NewLine]) /\ ~IsObject(lines'[NewLine])) =>
          IF handleNonJSON
          THEN \/ WriteFailed
               \/ Last(out') = Write(NewLine, Prefix(noColors) \o lines'[NewLine].text \o <<NL>>)
          ELSE /\ status' = "failed"
               /\ err' = [kind |-> "invalid JSON", text |-> lines'[NewLine].text]
               /\ out' = out]_vars

(***************************************************************************)
(* C25. If rendering a record fails, Format returns the empty string and   *)
(* the error, never a partial rendering; ProcessStream returns that error, *)
(* writes no part of the record's rendering and processes no later line.   *)
(***************************************************************************)
C25_RenderErrorHalts ==
    [][/\ (/\ ScannedDecoded
           /\ ~MatchesPattern(lines'[NewLine])
           /\ ExecuteFails(lines'[NewLine].data)) =>
             /\ Format(lines'[NewLine].data) = [ok |-> FALSE, s |-> <<>>]
             /\ status' = "failed"
             /\ \/ err'.kind = "write" /\ inNonJSON /\ out' = out
                \/ /\ err'.kind = "render"
                   /\ out' = out \o (IF inNonJSON THEN <<Blank(NewLine)>> ELSE <<>>)
       /\ Halted]_vars

\* Format failed on the record that came after a non-JSON line: the blank
\* line that ends the block is the last thing written
C25_Witness ==
    /\ status = "failed"
    /\ err.kind = "render"
    /\ handleNonJSON
    /\ lines = <<LineB, LineText, LineBad>>
    /\ out = <<Rendered(1), Blank(2), Marked(2), Blank(3)>>

(***************************************************************************)
(* C26. If a write fails (of a blank line, of a line behind the marker or  *)
(* of a rendered record) ProcessStream returns the write error at once and *)
(* reads, renders and writes nothing more; if no write and no read fails   *)
(* it ends without an error when the input is exhausted, and writes        *)
(* nothing at the end of the input.                                        *)
(***************************************************************************)
\* what the iteration of the line scanned in this step writes when no write
\* fails
FullWrites ==
    LET n == NewLine
        l == lines'[n]
    IN  IF IsEmptyLine(l) THEN <<>>
        ELSE IF DecodeFails(l)
        THEN (IF inNonJSON THEN <<>> ELSE <<Write(n, <<NL>>)>>)
             \o <<Write(n, Prefix(noColors) \o l.text \o <<NL>>)>>
        ELSE IF MatchesPattern(l) THEN <<>>
        ELSE (IF inNonJSON THEN <<Write(n, <<NL>>)>> ELSE <<>>)
             \o <<Write(n, Execute(l.data) \o <<NL>>)>>

IsProperPrefix(p, s) == Len(p) < Len(s) /\ p = SubSeq(s, 1, Len(p))

C26_WriteErrorHalts ==
    [][/\ (Scanned /\ WriteFailed) =>
             \E p \in {SubSeq(out', Len(out) + 1, Len(out'))} :
                 /\ out' = out \o p
                 /\ IsProperPrefix(p, FullWrites)
       /\ (status = "running" /\ status' = "done") =>
             /\ out' = out
             /\ lines' = lines
             /\ err' = [kind |-> "none", text |-> <<>>]
       /\ Halted]_vars

\* the write of the marked line failed after the blank line before it had
\* been written
C26_Witness ==
    /\ status = "failed"
    /\ err.kind = "write"
    /\ handleNonJSON
    /\ lines = <<LineB, LineText>>
    /\ out = <<Rendered(1), Blank(2)>>

\* the name the closing tag of the match at position i of s carries: the
\* text between "</" and ">", empty for the shorthand </>
CloseName(s, i) ==
    LET nameEnd == IndexFrom(s, ">", i + 1)
        close == IndexFrom(s, "<", nameEnd + 1)
    IN  SubSeq(s, close + 2, TagMatchAt(s, i).end - 1)

\* a span at position i of s whose closing tag is </> or repeats the
\* opening style list
ClosedByItsName(s, i) ==
    /\ TagMatchAt(s, i).ok
    /\ CloseName(s, i) \in {<<>>, TagMatchAt(s, i).tagName}

\* a span at position i of s whose closing tag names something else
ClosedByOtherName(s, i) ==
    /\ TagMatchAt(s, i).ok
    /\ ~ClosedByItsName(s, i)

(***************************************************************************)
(* C27. A span is resolved or stripped only when its closing tag is </> or *)
(* repeats the opening style list: an input none of whose spans is closed  *)
(* that way, such as <red BOLD u>x</red>, comes out of ApplyColors and of  *)
(* stripColorTags as it went in.                                           *)
(***************************************************************************)
C27_MismatchedCloseUnchanged ==
    (/\ ColorsDone
     /\ \A i \in 1..Len(Flatten(colorInput)) :
            ~ClosedByItsName(Flatten(colorInput), i)) =>
        /\ applyResult = Flatten(colorInput)
        /\ stripResult = Flatten(colorInput)

\* both loops have run on an input with a span closed by another name
C27_Reached ==
    /\ ColorsDone
    /\ \E i \in 1..Len(Flatten(colorInput)) :
           ClosedByOtherName(Flatten(colorInput), i)

\* a "{" not followed by another "{" at position p of t that the nesting
\* counter never brings back to 0
UnmatchedBrace(t, p) ==
    /\ t[p] = "{"
    /\ p = Len(t) \/ t[p + 1] # "{"
    /\ \A j \in p..Len(t) : Depth(t, j) - Depth(t, p - 1) >= 1

\* the first such position of t, 0 when there is none
FirstUnmatched(t) ==
    LET at == {p \in 1..Len(t) : UnmatchedBrace(t, p)}
    IN  IF at = {} THEN 0 ELSE CHOOSE p \in at : \A q \in at : p <= q

(***************************************************************************)
(* C28. With simple syntax enabled, a template whose first unmatched       *)
(* standalone "{" is at position p is preprocessed without failure into    *)
(* the text before p processed as it would be by the scan (returned as it  *)
(* is when the whole template counts as native syntax), followed by the    *)
(* text from p to the end unchanged: a {a} inside it is not rewritten.     *)
(***************************************************************************)
C28_UnmatchedBraceVerbatim ==
    (Ran /\ options /\ FirstUnmatched(template) # 0) =>
        LET p == FirstUnmatched(template)
            before == SubSeq(template, 1, p - 1)
            rest == SubSeq(template, p, Len(template))
        IN  result = (IF AlreadyGoTemplate(template) THEN before
                      ELSE SimpleFrom(before, 1)) \o rest

\* {}{a{a} : the reference before the unmatched brace is rewritten, the
\* one after it is not
C28_Witness ==
    /\ Ran /\ options
    /\ template = <<"{", "}", "{", "a", "{", "a", "}">>
    /\ FirstUnmatched(template) = 3
    /\ result = <<"{", "{", ".", "}", "}", "{", "a", "{", "a", "}">>

\* |d|
Magnitude(d) ==
    IF d.sec >= 0 THEN d
    ELSE IF d.nsec = 0 THEN Duration(0 - d.sec, 0)
    ELSE Duration(0 - d.sec - 1, Second - d.nsec)

\* the unit the magnitude of d asks for
UnitByMagnitude(d) ==
    LET m == Magnitude(d)
    IN  IF DurationLess(m, Microsecond) THEN "ns"
        ELSE IF DurationLess(m, Millisecond) THEN "us"
        ELSE IF DurationLess(m, Second) THEN "ms"
        ELSE IF m.sec < 10 THEN "s"
        ELSE "hms"

\* the unit a text of formatDuration is in: its suffix, and for a text in
\* seconds whether it is a number with two decimals or the compound form
UnitOfText(text) ==
    LET n == Len(text)
        unsigned == IF text[1] = "-" THEN Tail(text) ELSE text
    IN  IF text[n - 1] = "n" THEN "ns"
        ELSE IF text[n - 1] = MicroSign THEN "us"
        ELSE IF text[n - 1] = "m" THEN "ms"
        ELSE IF /\ Len(unsigned) >= 5
                /\ unsigned[Len(unsigned) - 3] = "."
                /\ \A k \in 1..Len(unsigned) : unsigned[k] \notin {"h", "m"}
        THEN "s"
        ELSE "hms"

(***************************************************************************)
(* C29. formatDuration selects the unit by the magnitude of the duration,  *)
(* zero and negative durations included: nanoseconds below 1us,            *)
(* microseconds from 1us to below 1ms, milliseconds from 1ms to below 1s,  *)
(* decimal seconds from 1s to below 10s, the compound h/m/s form from 10s. *)
(***************************************************************************)
C29_UnitByMagnitude ==
    Called("formatDuration") =>
        UnitOfText(ret.s) = UnitByMagnitude(call.args[1])

\* the same for the durations that are not negative
C29_UnitOfNonNegative ==
    (Called("formatDuration") /\ call.args[1].sec >= 0) =>
        UnitOfText(ret.s) = UnitByMagnitude(call.args[1])

\* formatDuration(-5s) has returned a count of nanoseconds
C29_NegativeInNanoseconds ==
    /\ Called("formatDuration")
    /\ call.args[1] = Duration(-5, 0)
    /\ ret.s = <<"-", "5", "0", "0", "0", "0", "0", "0", "0", "0", "0", "n", "s">>

\* the words of lines[k..], line after line
RECURSIVE WordsOfLines(_, _)
WordsOfLines(textLines, k) ==
    IF k > Len(textLines) THEN <<>>
    ELSE Fields(textLines[k]) \o WordsOfLines(textLines, k + 1)

\* wrap was called with a text that is not empty, a width of at least 1 and
\* an indent of at least 0
WrapCalled ==
    /\ Called("wrap")
    /\ call.args[1].k = "int" /\ call.args[1].v >= 1
    /\ call.args[2].k = "int" /\ call.args[2].v >= 0
    /\ call.args[3].k = "string" /\ call.args[3].v # <<>>

\* what C30 asks of the text wrap returns
WrapsWell ==
    LET width == call.args[1].v
        indent == call.args[2].v
        words == Fields(call.args[3].v)
        textLines == SplitLines(ret.s, <<>>)
    IN  /\ WordsOfLines(textLines, 1) = words
        /\ words # <<>> => HasPrefix(textLines[1], words[1])
        /\ \A k \in 2..Len(textLines) :
               /\ Len(textLines[k]) > indent
               /\ SubSeq(textLines[k], 1, indent) = Spaces(indent)
               /\ textLines[k][indent + 1] # " "
        /\ \A k \in 1..Len(textLines) :
               Len(Fields(textLines[k])) > 1 => Len(textLines[k]) <= width

(***************************************************************************)
(* C30. For every text that is not empty, every width of at least 1 and    *)
(* every indent of at least 0, wrap returns the words of the text in       *)
(* order, none of them split; the first line starts with the first word,   *)
(* every later line with exactly indent spaces; and every line of more     *)
(* than one word is at most width long, its indent included.               *)
(***************************************************************************)
C30_WrapKeepsWords == WrapCalled => WrapsWell

\* the same for the texts whose first word fits the width
C30_WrapFirstWordFits ==
    (/\ WrapCalled
     /\ Fields(call.args[3].v) # <<>>
     /\ Len(Fields(call.args[3].v)[1]) <= call.args[1].v) => WrapsWell

\* wrap 1 0 "ab" has returned an empty first line and ab on the second
C30_EmptyFirstLine ==
    /\ WrapCalled
    /\ call.args = <<IntVal(1), IntVal(0), StrVal(<<"a", "b">>)>>
    /\ ret.s = <<NL, "a", "b">>

(***************************************************************************)
(* Format called on one formatter from several goroutines                  *)
(***************************************************************************)
MaxGoroutines == 2
Goroutines == 1..MaxGoroutines

\* {{.id}} {{duration .d}}, {{pad .id .d}} and x{{.id}}{{pad .id .d}}
ConcFormats == {TplId \o <<" ">> \o TplDuration, TplPad, <<"x">> \o TplId \o TplPad}
ConcRecords == {LineStr.data, LineNum.data, LineMap.data}

\* one builder for all the calls
Builder_Shared(g) == 1

\* var buf strings.Builder: a local of the call
Builder(g) == g

NotInFormat == [pc |-> "idle", node |-> 0, ret |-> NoResult]

\* goroutine g calls f.Format(records[g])
FormatEnter(g) ==
    /\ formatCalls[g].pc \in {"idle", "returned"}
    /\ formatCalls' = [formatCalls EXCEPT ![g] = [pc |-> "executing", node |-> 1, ret |-> NoResult]]
    /\ builders' = [builders EXCEPT ![Builder(g)] = <<>>]
    /\ UNCHANGED <<tmplFormatter, preferredDateFmt, records>>
    /\ UNCHANGED streamVars
    /\ UNCHANGED preVars
    /\ UNCHANGED colorVars
    /\ UNCHANGED callVars

\* f.template.Execute(&buf, data) evaluates its next node and writes the
\* text to buf, or stops at the node's error and Format returns "", err
ExecuteNode(g) ==
    /\ formatCalls[g].pc = "executing"
    /\ formatCalls[g].node <= Len(tmplFormatter.template)
    /\ LET node == tmplFormatter.template[formatCalls[g].node]
           heads == IF node.kind = "text" THEN Texts({node.text})
                    ELSE EvalCommand(node.text, records[g], noColors)
       IN  \E h \in heads :
               IF h.ok
               THEN /\ builders' = [builders EXCEPT ![Builder(g)] = @ \o h.s]
                    /\ formatCalls' = [formatCalls EXCEPT ![g].node = @ + 1]
               ELSE /\ builders' = builders
                    /\ formatCalls' = [formatCalls EXCEPT ![g] =
                                          [pc |-> "returned", node |-> @.node, ret |-> Failed]]
    /\ UNCHANGED <<tmplFormatter, preferredDateFmt, records>>
    /\ UNCHANGED streamVars
    /\ UNCHANGED preVars
    /\ UNCHANGED colorVars
    /\ UNCHANGED callVars

\* return buf.String(), nil
FormatReturn(g) ==
    /\ formatCalls[g].pc = "executing"
    /\ formatCalls[g].node > Len(tmplFormatter.template)
    /\ formatCalls' = [formatCalls EXCEPT ![g] =
                          [pc |-> "returned", node |-> @.node,
                           ret |-> [ok |-> TRUE, s |-> builders[Builder(g)]]]]
    /\ UNCHANGED builders
    /\ UNCHANGED <<tmplFormatter, preferredDateFmt, records>>
    /\ UNCHANGED streamVars
    /\ UNCHANGED preVars
    /\ UNCHANGED colorVars
    /\ UNCHANGED callVars

InitGo ==
    /\ NoStream
    /\ noColors \in BOOLEAN
    /\ PreIdle
    /\ ColorIdle
    /\ CallIdle
    /\ \E format \in ConcFormats : tmplFormatter = Constructed(format)
    /\ preferredDateFmt = DefaultDateFormat
    /\ records \in [Goroutines -> ConcRecords]
    /\ formatCalls = [g \in Goroutines |-> NotInFormat]
    /\ builders = [g \in Goroutines |-> <<>>]

NextGo ==
    \/ \E g \in Goroutines : FormatEnter(g)
    \/ \E g \in Goroutines : ExecuteNode(g)
    \/ \E g \in Goroutines : FormatReturn(g)

SpecGo == InitGo /\ [][NextGo]_vars

(***************************************************************************)
(* C21. Format writes neither the fields of the formatter (the compiled    *)
(* template, the preferred date format, noColors) nor the record mapping,  *)
(* and in every interleaving of the calls that several goroutines make on  *)
(* one formatter each call returns what Format returns for its record when *)
(* it runs alone: its text, or no text and the error.                      *)
(***************************************************************************)
C21_FormatIsReadOnly ==
    [][/\ tmplFormatter' = tmplFormatter
       /\ preferredDateFmt' = preferredDateFmt
       /\ noColors' = noColors
       /\ records' = records
       /\ \A g \in Goroutines :
              formatCalls'[g].pc = "returned" =>
                  formatCalls'[g].ret \in
                      FormatWith(tmplFormatter.template, records[g], noColors)]_vars

\* both goroutines were in Execute at the same time, the first with text in
\* its builder, and the second has returned its text before the first
C21_Witness ==
    /\ formatCalls[1].pc = "executing"
    /\ formatCalls[1].node = 2
    /\ builders[1] # <<>>
    /\ formatCalls[2].pc = "returned"
    /\ formatCalls[2].ret.ok
    /\ formatCalls[2].ret.s # <<>>
    /\ records[1] # records[2]

====
